---- MODULE Spec2Model ----
(***************************************************************************)
(* A model of the JSON validator: the tokenizer (parser/lexer.rs), the     *)
(* token renderings (parser/token.rs), the diagnostics (parser/error.rs),  *)
(* the stack-based structural validator (parser/parser.rs) and the entry   *)
(* point JSONParser::check_valid (parser/mod.rs).                          *)
(*                                                                         *)
(* A character is a one-character string, an input stream a sequence of    *)
(* characters.  A token is a record with a kind, the text of a string      *)
(* literal and the value of a number.  A Result is a record whose status   *)
(* is "None" (not returned yet), "Ok" or "Err".                            *)
(***************************************************************************)
EXTENDS Integers, Sequences, FiniteSets, TLC

VARIABLES
    input,                \* the bytes behind the reader handed to check_valid / lex
    pos,                  \* how many of them read_until has consumed
    pc,                   \* where the running call is
    s,                    \* lex: the chunk (line) being tokenized
    si,                   \* lex: how many characters of s the for loop has consumed
    state,                \* lex: State
    curr_string_literal,  \* lex: text of the string literal being read
    curr_number_string,   \* lex: text of the number being read
    lex_tokens,           \* lex: the Vec<Token> built so far
    tokens,               \* JSONParser.tokens (check_valid) / parse's argument
    ti,                   \* how many tokens the validating for loop has consumed
    current_line,         \* JSONParser.current_line
    obj_depth,            \* check_valid locals
    is_inside_array,
    is_json_ended,
    is_inside_literal,
    is_after_comma,
    pstate,               \* parse: State (state_kind and obj_arr_stack)
    result,               \* what the call returned
    other,                \* PartialEq for JSONError: the right-hand side of ==
    formatted,            \* Display for JSONError: the text written to the Formatter
    eq,                   \* PartialEq for JSONError: what == returned
    calls                 \* several check_valid calls in flight, each on its own reader

vars == << input, pos, pc, s, si, state, curr_string_literal, curr_number_string,
           lex_tokens, tokens, ti, current_line, obj_depth, is_inside_array,
           is_json_ended, is_inside_literal, is_after_comma, pstate, result,
           other, formatted, eq, calls >>

(***************************************************************************)
(* Diagnostics (parser/error.rs)                                           *)
(***************************************************************************)
NoResult == [status |-> "None", message |-> "", line |-> 0]

OkResult == [status |-> "Ok", message |-> "", line |-> 0]

JSONError(message, line) == [status |-> "Err", message |-> message, line |-> line]

\* Display for i64: the decimal digits, after a `-` when the value is negative
DigitString(d) ==
    CASE d = 0 -> "0" [] d = 1 -> "1" [] d = 2 -> "2" [] d = 3 -> "3" [] d = 4 -> "4"
      [] d = 5 -> "5" [] d = 6 -> "6" [] d = 7 -> "7" [] d = 8 -> "8" [] d = 9 -> "9"

RECURSIVE NatToString(_)
NatToString(n) ==
    IF n < 10 THEN DigitString(n) ELSE NatToString(n \div 10) \o DigitString(n % 10)

i64_to_string(n) == IF n < 0 THEN "-" \o NatToString(0 - n) ELSE NatToString(n)

\* Display for JSONError with the line written before the message
JSONErrorDisplayLineFirst(e) == "line " \o i64_to_string(e.line) \o ": " \o e.message

\* Display for JSONError: write!(f, "{}: at line {}", self.message, self.line)
JSONErrorDisplay(e) == e.message \o ": at line " \o i64_to_string(e.line)

\* #[derive(PartialEq)] on JSONError: == compares the fields in turn
JSONErrorEq(a, b) == a.message = b.message /\ a.line = b.line

(***************************************************************************)
(* Tokens (parser/token.rs)                                                *)
(***************************************************************************)
NoValue == [class |-> "none", neg |-> FALSE, digits |-> << >>, exp |-> 0]

Token(kind) == [kind |-> kind, text |-> << >>, value |-> NoValue]

StringLiteral(text) == [kind |-> "StringLiteral", text |-> text, value |-> NoValue]

Number(value) == [kind |-> "Number", text |-> << >>, value |-> value]

\* TokenStr with the value tokens rendered by their kind
TokenStrOfKind(token) ==
    CASE token.kind = "OpenBrace" -> "{"
      [] token.kind = "ClosedBrace" -> "}"
      [] token.kind = "NewLine" -> "\n"
      [] token.kind = "DoubleQuotes" -> "\""
      [] token.kind = "Column" -> ":"
      [] token.kind = "Comma" -> ","
      [] token.kind = "OpenBracket" -> "["
      [] token.kind = "ClosedBracket" -> "]"
      [] OTHER -> token.kind

TokenStr(token) ==
    CASE token.kind = "OpenBrace" -> "{"
      [] token.kind = "ClosedBrace" -> "}"
      [] token.kind = "NewLine" -> "\n"
      [] token.kind = "DoubleQuotes" -> "\""
      [] token.kind = "Column" -> ":"
      [] token.kind = "Comma" -> ","
      [] token.kind = "Number" -> "<number>"
      [] token.kind \in {"BoolTrue", "BoolFalse"} -> "<boolean>"
      [] token.kind = "Null" -> "<null>"
      [] token.kind = "StringLiteral" -> "<string literal>"
      [] token.kind = "OpenBracket" -> "["
      [] token.kind = "ClosedBracket" -> "]"

TokenDisplay(token) == "'" \o TokenStr(token) \o "'"

(***************************************************************************)
(* parse_string_number_to_float (parser/lexer.rs): str::parse::<f64>.      *)
(* The f64 is kept as its class (zero, finite, inf), its sign and, when    *)
(* finite, its decimal significand without leading and trailing zeros      *)
(* and the power of ten of its last digit; a magnitude that rounds above   *)
(* f64::MAX is inf and one that rounds below the least subnormal is zero.  *)
(* -0.0 and 0.0 compare equal as f64 and are the one value zero.           *)
(***************************************************************************)
DigitChars == {"0", "1", "2", "3", "4", "5", "6", "7", "8", "9"}

DigitVal(c) ==
    CASE c = "0" -> 0 [] c = "1" -> 1 [] c = "2" -> 2 [] c = "3" -> 3 [] c = "4" -> 4
      [] c = "5" -> 5 [] c = "6" -> 6 [] c = "7" -> 7 [] c = "8" -> 8 [] c = "9" -> 9

AllDigits(str) == \A i \in 1..Len(str) : str[i] \in DigitChars

RECURSIVE StripLeadingZeros(_)
StripLeadingZeros(str) ==
    IF str # << >> /\ Head(str) = "0" THEN StripLeadingZeros(Tail(str)) ELSE str

RECURSIVE StripTrailingZeros(_)
StripTrailingZeros(str) ==
    IF str # << >> /\ str[Len(str)] = "0"
    THEN StripTrailingZeros(SubSeq(str, 1, Len(str) - 1))
    ELSE str

\* The value of a digit string, saturating at ExpCap (an exponent that large
\* already decides between zero and inf for any significand the model reads).
ExpCap == 100000

RECURSIVE DecimalValue(_, _)
DecimalValue(str, acc) ==
    IF str = << >> THEN acc
    ELSE DecimalValue(Tail(str),
                      IF acc * 10 + DigitVal(Head(str)) > ExpCap
                      THEN ExpCap ELSE acc * 10 + DigitVal(Head(str)))

\* a > b for two digit strings read as the fractions 0.a and 0.b
RECURSIVE FractionGreater(_, _)
FractionGreater(a, b) ==
    IF a = << >> THEN FALSE
    ELSE IF b = << >> THEN \E i \in 1..Len(a) : a[i] # "0"
    ELSE IF Head(a) # Head(b) THEN DigitVal(Head(a)) > DigitVal(Head(b))
    ELSE FractionGreater(Tail(a), Tail(b))

\* f64::MAX is 1.7976931348623157e308: a longer significand rounds to inf
MaxFiniteDigits ==
    << "1", "7", "9", "7", "6", "9", "3", "1", "3", "4", "8", "6", "2", "3", "1", "5", "8" >>

MaxFiniteExp == 308

\* half the least subnormal, 2.4703282292062327e-324: up to it a value rounds to zero
MinHalfDigits ==
    << "2", "4", "7", "0", "3", "2", "8", "2", "2", "9", "2", "0", "6", "2", "3", "2", "7" >>

MinHalfExp == -324

FirstExpMarker(str) ==
    IF \E i \in 1..Len(str) : str[i] \in {"e", "E"}
    THEN CHOOSE i \in 1..Len(str) :
            /\ str[i] \in {"e", "E"}
            /\ \A j \in 1..(i - 1) : str[j] \notin {"e", "E"}
    ELSE 0

FirstPoint(str) ==
    IF \E i \in 1..Len(str) : str[i] = "."
    THEN CHOOSE i \in 1..Len(str) : str[i] = "." /\ \A j \in 1..(i - 1) : str[j] # "."
    ELSE 0

\* a literal without its sign; its part before and after the exponent marker
Unsigned(str) == IF str # << >> /\ Head(str) \in {"-", "+"} THEN Tail(str) ELSE str

IsNegative(str) == str # << >> /\ Head(str) = "-"

BeforeIndex(str, i) == IF i = 0 THEN str ELSE SubSeq(str, 1, i - 1)

AfterIndex(str, i) == IF i = 0 THEN << >> ELSE SubSeq(str, i + 1, Len(str))

Mantissa(body) == BeforeIndex(body, FirstExpMarker(body))

Exponent(body) == AfterIndex(body, FirstExpMarker(body))

\* the literal split into sign, integer digits, fraction digits, exponent sign
\* and exponent digits
PartsOf(neg, mant, hasExp, expo) ==
    [ neg |-> neg,
      int |-> BeforeIndex(mant, FirstPoint(mant)),
      frac |-> AfterIndex(mant, FirstPoint(mant)),
      hasExp |-> hasExp,
      expNeg |-> IsNegative(expo),
      expDigits |-> Unsigned(expo) ]

BodyParts(neg, body) ==
    PartsOf(neg, Mantissa(body), FirstExpMarker(body) # 0, Exponent(body))

FloatParts(number_string) == BodyParts(IsNegative(number_string), Unsigned(number_string))

\* the shapes str::parse::<f64> accepts (inf, infinity and nan aside, which hold
\* letters the tokenizer never accumulates)
ValidParts(p) ==
    /\ AllDigits(p.int) /\ AllDigits(p.frac)
    /\ Len(p.int) + Len(p.frac) > 0
    /\ AllDigits(p.expDigits)
    /\ (p.hasExp => Len(p.expDigits) > 0)

ValidFloatLiteral(number_string) == ValidParts(FloatParts(number_string))

\* the f64 nearest to digits * 10^exp (digits without leading or trailing zeros)
Classify(neg, digits, exp, mag) ==
    IF digits = << >>
    THEN [class |-> "zero", neg |-> FALSE, digits |-> << >>, exp |-> 0]
    ELSE IF mag > MaxFiniteExp \/ (mag = MaxFiniteExp /\ FractionGreater(digits, MaxFiniteDigits))
    THEN [class |-> "inf", neg |-> neg, digits |-> << >>, exp |-> 0]
    ELSE IF mag < MinHalfExp \/ (mag = MinHalfExp /\ ~FractionGreater(digits, MinHalfDigits))
    THEN [class |-> "zero", neg |-> FALSE, digits |-> << >>, exp |-> 0]
    ELSE [class |-> "finite", neg |-> neg, digits |-> digits, exp |-> exp]

Scaled(neg, digits, exp) == Classify(neg, digits, exp, Len(digits) + exp - 1)

Significand(neg, lead, digits, e) == Scaled(neg, digits, e + (Len(lead) - Len(digits)))

SignedExp(p) ==
    (IF p.expNeg THEN 0 - DecimalValue(p.expDigits, 0) ELSE DecimalValue(p.expDigits, 0))
        - Len(p.frac)

LeadDigits(neg, lead, e) == Significand(neg, lead, StripTrailingZeros(lead), e)

ValueOfParts(p) == LeadDigits(p.neg, StripLeadingZeros(p.int \o p.frac), SignedExp(p))

FloatValue(number_string) == ValueOfParts(FloatParts(number_string))

\* parse_string_number_to_float with a range check: a literal beyond the f64
\* range is an Err
parse_string_number_to_float_checked(number_string) ==
    IF ValidFloatLiteral(number_string) /\ FloatValue(number_string).class # "inf"
    THEN [ok |-> TRUE, value |-> FloatValue(number_string), err |-> NoResult]
    ELSE [ok |-> FALSE, value |-> NoValue,
          err |-> JSONError("Unexpected error: number out of range", 1)]

\* Ok(value) or the Err the ? operator hands back to lex's caller
parse_string_number_to_float(number_string) ==
    IF ValidFloatLiteral(number_string)
    THEN [ok |-> TRUE, value |-> FloatValue(number_string), err |-> NoResult]
    ELSE [ok |-> FALSE, value |-> NoValue,
          err |-> JSONError("Unexpected error: " \o
                            (IF number_string = << >>
                             THEN "cannot parse float from empty string"
                             ELSE "invalid float literal"), 1)]

(***************************************************************************)
(* The tokenizer (parser/lexer.rs)                                         *)
(***************************************************************************)
\* is_final, is_exp and is_leading_zero answering the same for every sub-state
is_final_always(n) == TRUE

is_exp_never(n) == FALSE

is_leading_zero_never(n) == FALSE

\* NumberState::is_final, is_exp, is_leading_zero
is_final(n) == n \in {"LeadingZero", "Integer", "Decimal", "ExpLeadingZero", "ExpInteger"}

is_exp(n) == n = "ExpLeadingZero" \/ n = "ExpInteger"

is_leading_zero(n) == n = "LeadingZero" \/ n = "ExpLeadingZero"

\* enum State: n is the NumberState of ValueNumber, c the character of
\* ValueTrue / ValueFalse / ValueNull, hex the index of Hex
Normal == [kind |-> "Normal", n |-> "-", c |-> "-", hex |-> 0]

ValueNumber(n) == [kind |-> "ValueNumber", n |-> n, c |-> "-", hex |-> 0]

ValueTrue(c) == [kind |-> "ValueTrue", n |-> "-", c |-> c, hex |-> 0]

ValueFalse(c) == [kind |-> "ValueFalse", n |-> "-", c |-> c, hex |-> 0]

ValueNull(c) == [kind |-> "ValueNull", n |-> "-", c |-> c, hex |-> 0]

ValueStringLiteral == [kind |-> "ValueStringLiteral", n |-> "-", c |-> "-", hex |-> 0]

Escaping == [kind |-> "Escaping", n |-> "-", c |-> "-", hex |-> 0]

Hex(i) == [kind |-> "Hex", n |-> "-", c |-> "-", hex |-> i]

\* HexChars with the letters read up to G and g
HexCharsThroughG ==
    DigitChars \cup {"A", "B", "C", "D", "E", "F", "G", "a", "b", "c", "d", "e", "f", "g"}

HexChars == DigitChars \cup {"A", "B", "C", "D", "E", "F", "a", "b", "c", "d", "e", "f"}

NonZeroDigitChars == DigitChars \ {"0"}

\* The reader's bytes are written as the characters they encode, one element
\* for each character; InvalidByte stands for a byte that occurs in no UTF-8
\* encoding (0xFF) and MultiByteChar for a character encoded in two bytes.
InvalidByte == "<0xFF>"

MultiByteChar == "é"

\* String::from_utf8(buf) is Ok
from_utf8_ok(buf) == \A i \in 1..Len(buf) : buf[i] # InvalidByte

\* `.expect("from_utf8 failed")` on an Err: the thread panics and the call
\* returns nothing
Panicked == [status |-> "Panic", message |-> "from_utf8 failed", line |-> 0]

\* the index of the last byte read_until(b'\n') takes, reading after `from`
ChunkEndFrom(bytes, from) ==
    IF \E i \in (from + 1)..Len(bytes) : bytes[i] = "\n"
    THEN CHOOSE i \in (from + 1)..Len(bytes) :
            bytes[i] = "\n" /\ \A j \in (from + 1)..(i - 1) : bytes[j] # "\n"
    ELSE Len(bytes)

\* What one iteration of `for c in s.chars()` leaves: the next State, the two
\* buffers, the tokens pushed, and the Err returned from lex if there is one.
LexOut(st, lit, num, pushed) ==
    [state |-> st, lit |-> lit, num |-> num, pushed |-> pushed, err |-> NoResult]

LexErr(message) ==
    [state |-> Normal, lit |-> << >>, num |-> << >>, pushed |-> << >>,
     err |-> JSONError(message, 1)]

\* UnexpectedChar without the quotes around the character
UnexpectedCharUnquoted(c) == LexErr("Unexpected " \o c)

UnexpectedChar(c) == LexErr("Unexpected '" \o c \o "'")

\* CloseNumber without `curr_number_string.clear()`
CloseNumberKeepingText(num, after) ==
    LET f == parse_string_number_to_float(num)
    IN  IF f.ok
        THEN LexOut(Normal, << >>, num, << Number(f.value) >> \o after)
        ELSE [state |-> Normal, lit |-> << >>, num |-> << >>, pushed |-> << >>,
              err |-> f.err]

\* the arms `(<terminator>, State::ValueNumber(n)) if n.is_final()`: the number is
\* converted and pushed, then the terminator's own token
CloseNumber(num, after) ==
    LET f == parse_string_number_to_float(num)
    IN  IF f.ok
        THEN LexOut(Normal, << >>, << >>, << Number(f.value) >> \o after)
        ELSE [state |-> Normal, lit |-> << >>, num |-> << >>, pushed |-> << >>,
              err |-> f.err]

\* the arms whose state is ValueStringLiteral, Escaping or Hex
\* LexStepString with the escapes b f n r t / recorded without their backslash
LexStepStringDroppingBackslash(c, st, lit, num) ==
    CASE st.kind = "ValueStringLiteral" /\ c = "\\" -> LexOut(Escaping, lit, num, << >>)
      [] st.kind = "ValueStringLiteral" /\ c = "\t" -> LexErr("Unexpected <tab>")
      [] st.kind = "ValueStringLiteral" /\ c = "\"" ->
            LexOut(Normal, << >>, num, << StringLiteral(lit) >>)
      [] st.kind = "ValueStringLiteral" /\ c \notin {"\\", "\t", "\""} ->
            LexOut(ValueStringLiteral, Append(lit, c), num, << >>)
      [] st.kind = "Escaping" /\ c \in {"\"", "\\", "b", "f", "n", "r", "t", "/"} ->
            LexOut(ValueStringLiteral, Append(lit, c), num, << >>)
      [] st.kind = "Escaping" /\ c = "u" ->
            LexOut(Hex(0), lit \o << "\\", "u" >>, num, << >>)
      [] st.kind = "Hex" /\ c \in HexChars /\ st.hex < 4 ->
            LexOut(IF st.hex = 3 THEN ValueStringLiteral ELSE Hex(st.hex + 1),
                   Append(lit, c), num, << >>)
      [] OTHER -> UnexpectedChar(c)

LexStepString(c, st, lit, num) ==
    CASE st.kind = "ValueStringLiteral" /\ c = "\\" -> LexOut(Escaping, lit, num, << >>)
      [] st.kind = "ValueStringLiteral" /\ c = "\t" -> LexErr("Unexpected <tab>")
      [] st.kind = "ValueStringLiteral" /\ c = "\"" ->
            LexOut(Normal, << >>, num, << StringLiteral(lit) >>)
      [] st.kind = "ValueStringLiteral" /\ c \notin {"\\", "\t", "\""} ->
            LexOut(ValueStringLiteral, Append(lit, c), num, << >>)
      [] st.kind = "Escaping" /\ c \in {"\"", "\\"} ->
            LexOut(ValueStringLiteral, Append(lit, c), num, << >>)
      [] st.kind = "Escaping" /\ c \in {"b", "f", "n", "r", "t", "/"} ->
            LexOut(ValueStringLiteral, lit \o << "\\", c >>, num, << >>)
      [] st.kind = "Escaping" /\ c = "u" ->
            LexOut(Hex(0), lit \o << "\\", "u" >>, num, << >>)
      [] st.kind = "Hex" /\ c \in HexChars /\ st.hex < 4 ->
            LexOut(IF st.hex = 3 THEN ValueStringLiteral ELSE Hex(st.hex + 1),
                   Append(lit, c), num, << >>)
      [] OTHER -> UnexpectedChar(c)

\* the arms whose state is Normal
\* LexStepNormal with a leading `+` kept in the text of the number
LexStepNormalKeepingPlus(c, st, lit, num) ==
    CASE c = "\"" -> LexOut(ValueStringLiteral, lit, num, << >>)
      [] c = "{" -> LexOut(Normal, lit, num, << Token("OpenBrace") >>)
      [] c = "}" -> LexOut(Normal, lit, num, << Token("ClosedBrace") >>)
      [] c = "[" -> LexOut(st, lit, num, << Token("OpenBracket") >>)
      [] c = "]" -> LexOut(Normal, lit, num, << Token("ClosedBracket") >>)
      [] c = "\n" -> LexOut(Normal, lit, num, << Token("NewLine") >>)
      [] c = ":" -> LexOut(Normal, lit, num, << Token("Column") >>)
      [] c = "," -> LexOut(Normal, lit, num, << Token("Comma") >>)
      [] c = " " -> LexOut(Normal, lit, num, << >>)
      [] c \in {"-", "+"} -> LexOut(ValueNumber("Sign"), lit, Append(num, c), << >>)
      [] c = "0" -> LexOut(ValueNumber("LeadingZero"), lit, Append(num, "0"), << >>)
      [] c \in NonZeroDigitChars -> LexOut(ValueNumber("Integer"), lit, Append(num, c), << >>)
      [] c = "t" -> LexOut(ValueTrue("t"), lit, num, << >>)
      [] c = "f" -> LexOut(ValueFalse("f"), lit, num, << >>)
      [] c = "n" -> LexOut(ValueNull("n"), lit, num, << >>)
      [] OTHER -> UnexpectedChar(c)

LexStepNormal(c, st, lit, num) ==
    CASE c = "\"" -> LexOut(ValueStringLiteral, lit, num, << >>)
      [] c = "{" -> LexOut(Normal, lit, num, << Token("OpenBrace") >>)
      [] c = "}" -> LexOut(Normal, lit, num, << Token("ClosedBrace") >>)
      [] c = "[" -> LexOut(st, lit, num, << Token("OpenBracket") >>)
      [] c = "]" -> LexOut(Normal, lit, num, << Token("ClosedBracket") >>)
      [] c = "\n" -> LexOut(Normal, lit, num, << Token("NewLine") >>)
      [] c = ":" -> LexOut(Normal, lit, num, << Token("Column") >>)
      [] c = "," -> LexOut(Normal, lit, num, << Token("Comma") >>)
      [] c = " " -> LexOut(Normal, lit, num, << >>)
      [] c \in {"-", "+"} ->
            LexOut(ValueNumber("Sign"), lit, IF c = "-" THEN Append(num, c) ELSE num, << >>)
      [] c = "0" -> LexOut(ValueNumber("LeadingZero"), lit, Append(num, "0"), << >>)
      [] c \in NonZeroDigitChars -> LexOut(ValueNumber("Integer"), lit, Append(num, c), << >>)
      [] c = "t" -> LexOut(ValueTrue("t"), lit, num, << >>)
      [] c = "f" -> LexOut(ValueFalse("f"), lit, num, << >>)
      [] c = "n" -> LexOut(ValueNull("n"), lit, num, << >>)
      [] OTHER -> UnexpectedChar(c)

\* the arms whose state is ValueNumber(n)
LexStepNumber(c, st, lit, num) ==
    LET n == st.n
    IN  CASE c = "}" /\ is_final(n) ->
                [CloseNumber(num, << Token("ClosedBrace") >>) EXCEPT !.lit = lit]
          [] c = "]" /\ is_final(n) ->
                [CloseNumber(num, << Token("ClosedBracket") >>) EXCEPT !.lit = lit]
          [] c = "\n" /\ is_final(n) ->
                [CloseNumber(num, << Token("NewLine") >>) EXCEPT !.lit = lit]
          [] c = "," /\ is_final(n) ->
                [CloseNumber(num, << Token("Comma") >>) EXCEPT !.lit = lit]
          [] c = " " /\ is_final(n) ->
                [CloseNumber(num, << >>) EXCEPT !.lit = lit]
          [] c \in {"-", "+"} /\ n = "Exp" ->
                LexOut(ValueNumber("ExpSign"), lit,
                       IF c = "-" THEN Append(num, c) ELSE num, << >>)
          [] c \in {"e", "E"} /\ is_final(n) /\ ~is_exp(n) ->
                LexOut(ValueNumber("Exp"), lit, Append(num, "e"), << >>)
          [] c = "0" /\ n \in {"Exp", "ExpSign"} ->
                LexOut(ValueNumber("ExpLeadingZero"), lit, Append(num, "0"), << >>)
          [] c = "0" /\ n = "Sign" ->
                LexOut(ValueNumber("LeadingZero"), lit, Append(num, "0"), << >>)
          [] c \in NonZeroDigitChars /\ n \in {"Exp", "ExpSign"} ->
                LexOut(ValueNumber("ExpInteger"), lit, Append(num, c), << >>)
          [] c \in NonZeroDigitChars /\ n = "Sign" ->
                LexOut(ValueNumber("Integer"), lit, Append(num, c), << >>)
          [] c \in DigitChars /\ n = "Point" ->
                LexOut(ValueNumber("Decimal"), lit, Append(num, c), << >>)
          [] c \in DigitChars /\ n \notin {"Exp", "ExpSign", "Sign", "Point"}
                /\ ~is_leading_zero(n) ->
                LexOut(ValueNumber(n), lit, Append(num, c), << >>)
          [] c = "." /\ n \in {"Integer", "LeadingZero"} ->
                LexOut(ValueNumber("Point"), lit, Append(num, "."), << >>)
          [] OTHER -> UnexpectedChar(c)

\* the arms whose state is ValueTrue, ValueFalse or ValueNull
\* LexStepLiteral with a space inside a literal skipped
LexStepLiteralSkippingSpace(c, st, lit, num) ==
    CASE c = " " -> LexOut(st, lit, num, << >>)
      [] c = "r" /\ st = ValueTrue("t") -> LexOut(ValueTrue("r"), lit, num, << >>)
      [] c = "u" /\ st = ValueTrue("r") -> LexOut(ValueTrue("u"), lit, num, << >>)
      [] c = "e" /\ st = ValueTrue("u") -> LexOut(Normal, lit, num, << Token("BoolTrue") >>)
      [] c = "a" /\ st = ValueFalse("f") -> LexOut(ValueFalse("a"), lit, num, << >>)
      [] c = "l" /\ st = ValueFalse("a") -> LexOut(ValueFalse("l"), lit, num, << >>)
      [] c = "s" /\ st = ValueFalse("l") -> LexOut(ValueFalse("s"), lit, num, << >>)
      [] c = "e" /\ st = ValueFalse("s") -> LexOut(Normal, lit, num, << Token("BoolFalse") >>)
      [] c = "u" /\ st = ValueNull("n") -> LexOut(ValueNull("u"), lit, num, << >>)
      [] c = "l" /\ st = ValueNull("u") -> LexOut(ValueNull("l"), lit, num, << >>)
      [] c = "l" /\ st = ValueNull("l") -> LexOut(Normal, lit, num, << Token("Null") >>)
      [] OTHER -> UnexpectedChar(c)

LexStepLiteral(c, st, lit, num) ==
    CASE c = "r" /\ st = ValueTrue("t") -> LexOut(ValueTrue("r"), lit, num, << >>)
      [] c = "u" /\ st = ValueTrue("r") -> LexOut(ValueTrue("u"), lit, num, << >>)
      [] c = "e" /\ st = ValueTrue("u") -> LexOut(Normal, lit, num, << Token("BoolTrue") >>)
      [] c = "a" /\ st = ValueFalse("f") -> LexOut(ValueFalse("a"), lit, num, << >>)
      [] c = "l" /\ st = ValueFalse("a") -> LexOut(ValueFalse("l"), lit, num, << >>)
      [] c = "s" /\ st = ValueFalse("l") -> LexOut(ValueFalse("s"), lit, num, << >>)
      [] c = "e" /\ st = ValueFalse("s") -> LexOut(Normal, lit, num, << Token("BoolFalse") >>)
      [] c = "u" /\ st = ValueNull("n") -> LexOut(ValueNull("u"), lit, num, << >>)
      [] c = "l" /\ st = ValueNull("u") -> LexOut(ValueNull("l"), lit, num, << >>)
      [] c = "l" /\ st = ValueNull("l") -> LexOut(Normal, lit, num, << Token("Null") >>)
      [] OTHER -> UnexpectedChar(c)

\* `state = match (c, &state) { ... }`
\* LexStep with a raw tab inside a string taken as a character of the string
LexStepTabAsText(c, st, lit, num) ==
    IF st.kind = "ValueStringLiteral" /\ c = "\t"
    THEN LexOut(ValueStringLiteral, Append(lit, c), num, << >>)
    ELSE CASE st.kind \in {"ValueStringLiteral", "Escaping", "Hex"} ->
                    LexStepString(c, st, lit, num)
           [] st.kind = "Normal" -> LexStepNormal(c, st, lit, num)
           [] st.kind = "ValueNumber" -> LexStepNumber(c, st, lit, num)
           [] st.kind \in {"ValueTrue", "ValueFalse", "ValueNull"} ->
                    LexStepLiteral(c, st, lit, num)

\* LexStep with the closing quote leaving curr_string_literal as it is
LexStepKeepingText(c, st, lit, num) ==
    IF st.kind = "ValueStringLiteral" /\ c = "\""
    THEN LexOut(Normal, lit, num, << StringLiteral(lit) >>)
    ELSE CASE st.kind \in {"ValueStringLiteral", "Escaping", "Hex"} ->
                    LexStepString(c, st, lit, num)
           [] st.kind = "Normal" -> LexStepNormal(c, st, lit, num)
           [] st.kind = "ValueNumber" -> LexStepNumber(c, st, lit, num)
           [] st.kind \in {"ValueTrue", "ValueFalse", "ValueNull"} ->
                    LexStepLiteral(c, st, lit, num)

\* LexStep with a character of several bytes skipped outside strings
LexStepSkippingMultiByte(c, st, lit, num) ==
    IF st.kind = "Normal" /\ c = MultiByteChar
    THEN LexOut(st, lit, num, << >>)
    ELSE CASE st.kind \in {"ValueStringLiteral", "Escaping", "Hex"} ->
                    LexStepString(c, st, lit, num)
           [] st.kind = "Normal" -> LexStepNormal(c, st, lit, num)
           [] st.kind = "ValueNumber" -> LexStepNumber(c, st, lit, num)
           [] st.kind \in {"ValueTrue", "ValueFalse", "ValueNull"} ->
                    LexStepLiteral(c, st, lit, num)

LexStep(c, st, lit, num) ==
    CASE st.kind \in {"ValueStringLiteral", "Escaping", "Hex"} -> LexStepString(c, st, lit, num)
      [] st.kind = "Normal" -> LexStepNormal(c, st, lit, num)
      [] st.kind = "ValueNumber" -> LexStepNumber(c, st, lit, num)
      [] st.kind \in {"ValueTrue", "ValueFalse", "ValueNull"} -> LexStepLiteral(c, st, lit, num)

\* lex(reader) as a function of the reader's bytes: read_until(b'\n') ends a chunk
\* after each "\n", a chunk that is not UTF-8 panics, and every chunk starts
\* from State::Normal with two empty buffers; the result is the Err of the first
\* failing character or Ok(tokens)
RECURSIVE LexFrom(_, _, _, _, _)
RECURSIVE LexChunk(_, _)
LexFrom(str, st, lit, num, toks) ==
    IF str = << >> THEN [err |-> NoResult, tokens |-> toks]
    ELSE LET out == LexStep(Head(str), st, lit, num)
         IN  IF out.err.status = "Err" THEN [err |-> out.err, tokens |-> << >>]
             ELSE IF Head(str) = "\n"
             THEN LexChunk(Tail(str), toks \o out.pushed)
             ELSE LexFrom(Tail(str), out.state, out.lit, out.num, toks \o out.pushed)

\* the reader holding str when read_until is called
LexChunk(str, toks) ==
    IF from_utf8_ok(SubSeq(str, 1, ChunkEndFrom(str, 0)))
    THEN LexFrom(str, Normal, << >>, << >>, toks)
    ELSE [err |-> Panicked, tokens |-> << >>]

lex(bytes) == LexChunk(bytes, << >>)

(***************************************************************************)
(* The structural validator (parser/parser.rs)                             *)
(***************************************************************************)
\* State::new
NewState == [state_kind |-> "Initial", obj_arr_stack |-> << >>]

\* What a transition leaves: the State, and the Err returned if there is one.
ParseOk(state_kind, obj_arr_stack) ==
    [state_kind |-> state_kind, obj_arr_stack |-> obj_arr_stack, err |-> NoResult]

ParseErr(st, message) ==
    [state_kind |-> st.state_kind, obj_arr_stack |-> st.obj_arr_stack,
     err |-> JSONError(message, 1)]

Last(stack) == stack[Len(stack)]

Pop(stack) == SubSeq(stack, 1, Len(stack) - 1)

close_obj(st) ==
    IF st.obj_arr_stack # << >> /\ Last(st.obj_arr_stack) = "RootObj"
    THEN ParseOk("End", Pop(st.obj_arr_stack))
    ELSE IF st.obj_arr_stack # << >> /\ Last(st.obj_arr_stack) = "Object"
    THEN ParseOk("AfterObjVal", Pop(st.obj_arr_stack))
    ELSE ParseErr(st, "Unexpected '}'")

open_obj(st) ==
    ParseOk("OpenObj",
            Append(st.obj_arr_stack, IF st.obj_arr_stack # << >> THEN "Object" ELSE "RootObj"))

\* open_arr pushing the root marker at every depth
open_arr_as_root(st) == ParseOk("OpenArr", Append(st.obj_arr_stack, "RootArr"))

open_arr(st) ==
    ParseOk("OpenArr",
            Append(st.obj_arr_stack, IF st.obj_arr_stack # << >> THEN "Array" ELSE "RootArr"))

\* close_arr closing whatever container is innermost
close_arr_any(st) ==
    IF st.obj_arr_stack # << >> /\ Last(st.obj_arr_stack) \in {"RootArr", "RootObj"}
    THEN ParseOk("End", Pop(st.obj_arr_stack))
    ELSE IF st.obj_arr_stack # << >>
    THEN ParseOk("ArrVal", Pop(st.obj_arr_stack))
    ELSE ParseErr(st, "Unexpected ']'")

close_arr(st) ==
    IF st.obj_arr_stack # << >> /\ Last(st.obj_arr_stack) = "RootArr"
    THEN ParseOk("End", Pop(st.obj_arr_stack))
    ELSE IF st.obj_arr_stack # << >> /\ Last(st.obj_arr_stack) = "Array"
    THEN ParseOk("ArrVal", Pop(st.obj_arr_stack))
    ELSE ParseErr(st, "Unexpected ']'")

ScalarKinds == {"StringLiteral", "BoolFalse", "BoolTrue", "Null", "Number"}

\* the arm `(StateKind::End, token)` and the last arm `(_, token)`
UnexpectedToken(st, token) == ParseErr(st, "Unexpected " \o TokenDisplay(token))

\* the arms of parse's `match (&state.state_kind, token)`, by state kind; every
\* token with no arm of its own falls to the last arm `(_, token)`
\* FromInitial with a scalar accepted as the whole document (RFC 8259's text)
FromInitialAcceptingScalar(st, token) ==
    CASE token.kind = "OpenBrace" -> open_obj(st)
      [] token.kind = "ClosedBrace" -> ParseErr(st, "Unexpected '}'")
      [] token.kind = "OpenBracket" -> open_arr(st)
      [] token.kind \in ScalarKinds -> ParseOk("End", st.obj_arr_stack)
      [] OTHER -> UnexpectedToken(st, token)

\* FromInitial with a `}` before the root container skipped like a line break
FromInitialSkippingCloser(st, token) ==
    CASE token.kind = "OpenBrace" -> open_obj(st)
      [] token.kind = "ClosedBrace" -> ParseOk(st.state_kind, st.obj_arr_stack)
      [] token.kind = "OpenBracket" -> open_arr(st)
      [] OTHER -> UnexpectedToken(st, token)

FromInitial(st, token) ==
    CASE token.kind = "OpenBrace" -> open_obj(st)
      [] token.kind = "ClosedBrace" -> ParseErr(st, "Unexpected '}'")
      [] token.kind = "OpenBracket" -> open_arr(st)
      [] OTHER -> UnexpectedToken(st, token)

\* FromEnd with a comma after the root container skipped like a line break
FromEndSkippingComma(st, token) ==
    IF token.kind = "Comma" THEN ParseOk(st.state_kind, st.obj_arr_stack)
    ELSE UnexpectedToken(st, token)

FromEnd(st, token) == UnexpectedToken(st, token)

FromOpenObj(st, token) ==
    CASE token.kind = "StringLiteral" -> ParseOk("ObjKey", st.obj_arr_stack)
      [] token.kind = "ClosedBrace" -> close_obj(st)
      [] OTHER -> UnexpectedToken(st, token)

FromOpenArr(st, token) ==
    CASE token.kind = "ClosedBracket" -> close_arr(st)
      [] token.kind = "OpenBracket" -> open_arr(st)
      [] token.kind \in ScalarKinds -> ParseOk("ArrVal", st.obj_arr_stack)
      [] OTHER -> UnexpectedToken(st, token)

FromArrValAfterComma(st, token) ==
    CASE token.kind \in ScalarKinds -> ParseOk("ArrVal", st.obj_arr_stack)
      [] OTHER -> UnexpectedToken(st, token)

FromObjKey(st, token) ==
    CASE token.kind = "Column" -> ParseOk("ObjVal", st.obj_arr_stack)
      [] OTHER -> UnexpectedToken(st, token)

FromArrVal(st, token) ==
    CASE token.kind = "ClosedBracket" -> close_arr(st)
      [] token.kind = "ClosedBrace" -> close_obj(st)
      [] token.kind = "Comma" -> ParseOk("ArrValAfterComma", st.obj_arr_stack)
      [] OTHER -> UnexpectedToken(st, token)

FromObjVal(st, token) ==
    CASE token.kind \in ScalarKinds -> ParseOk("AfterObjVal", st.obj_arr_stack)
      [] token.kind = "OpenBrace" -> open_obj(st)
      [] token.kind = "OpenBracket" -> open_arr(st)
      [] OTHER -> UnexpectedToken(st, token)

FromAfterObjVal(st, token) ==
    CASE token.kind = "ClosedBrace" -> close_obj(st)
      [] token.kind = "Comma" -> ParseOk("ObjComma", st.obj_arr_stack)
      [] OTHER -> UnexpectedToken(st, token)

\* FromObjComma with a `}` closing the object directly after a comma
FromObjCommaClosing(st, token) ==
    CASE token.kind = "StringLiteral" -> ParseOk("ObjKey", st.obj_arr_stack)
      [] token.kind = "ClosedBrace" -> close_obj(st)
      [] OTHER -> UnexpectedToken(st, token)

FromObjComma(st, token) ==
    CASE token.kind = "StringLiteral" -> ParseOk("ObjKey", st.obj_arr_stack)
      [] OTHER -> UnexpectedToken(st, token)

\* one iteration of parse's `for token in &tokens`: the first arm `(_, Token::NewLine)`,
\* then the arms of the state kind
\* ParseStep without the arm `(_, Token::NewLine)`: a line break is matched
\* like every other token
ParseStepMatchingNewLine(st, token) ==
    CASE st.state_kind = "Initial" -> FromInitial(st, token)
      [] st.state_kind = "End" -> FromEnd(st, token)
      [] st.state_kind = "OpenObj" -> FromOpenObj(st, token)
      [] st.state_kind = "OpenArr" -> FromOpenArr(st, token)
      [] st.state_kind = "ArrValAfterComma" -> FromArrValAfterComma(st, token)
      [] st.state_kind = "ObjKey" -> FromObjKey(st, token)
      [] st.state_kind = "ArrVal" -> FromArrVal(st, token)
      [] st.state_kind = "ObjVal" -> FromObjVal(st, token)
      [] st.state_kind = "AfterObjVal" -> FromAfterObjVal(st, token)
      [] st.state_kind = "ObjComma" -> FromObjComma(st, token)

ParseStep(st, token) ==
    IF token.kind = "NewLine" THEN ParseOk(st.state_kind, st.obj_arr_stack)
    ELSE CASE st.state_kind = "Initial" -> FromInitial(st, token)
           [] st.state_kind = "End" -> FromEnd(st, token)
           [] st.state_kind = "OpenObj" -> FromOpenObj(st, token)
           [] st.state_kind = "OpenArr" -> FromOpenArr(st, token)
           [] st.state_kind = "ArrValAfterComma" -> FromArrValAfterComma(st, token)
           [] st.state_kind = "ObjKey" -> FromObjKey(st, token)
           [] st.state_kind = "ArrVal" -> FromArrVal(st, token)
           [] st.state_kind = "ObjVal" -> FromObjVal(st, token)
           [] st.state_kind = "AfterObjVal" -> FromAfterObjVal(st, token)
           [] st.state_kind = "ObjComma" -> FromObjComma(st, token)

\* ParseFinish returning Ok(()) whenever no container is open
ParseFinishOnEmptyStack(st) ==
    IF st.obj_arr_stack # << >> THEN JSONError("Unexpected EOF", 1) ELSE OkResult

\* what parse returns once the for loop has consumed every token
ParseFinish(st) ==
    IF st.state_kind # "End" THEN JSONError("Unexpected EOF", 1) ELSE OkResult

\* parse(tokens): the loop, from State::new(), stopping at the first Err
RECURSIVE ParseFrom(_, _)
ParseFrom(st, toks) ==
    IF toks = << >> THEN ParseFinish(st)
    ELSE LET next == ParseStep(st, Head(toks))
         IN  IF next.err.status = "Err" THEN next.err
             ELSE ParseFrom([state_kind |-> next.state_kind,
                             obj_arr_stack |-> next.obj_arr_stack], Tail(toks))

parse(toks) == ParseFrom(NewState, toks)

(***************************************************************************)
(* JSONParser::check_valid (parser/mod.rs)                                 *)
(***************************************************************************)
\* JSONParser::build_json_err
build_json_err(message, line) == JSONError(message, line)

\* The locals of check_valid's loop.
CheckLocals(depth, in_array, ended, in_literal, after_comma) ==
    [obj_depth |-> depth, is_inside_array |-> in_array, is_json_ended |-> ended,
     is_inside_literal |-> in_literal, is_after_comma |-> after_comma, err |-> NoResult]

\* one iteration of check_valid's `for token in &p.tokens`: `match token`
CheckStep(l, token, line) ==
    LET t == token.kind
        same == [l EXCEPT !.err = NoResult]
    IN  CASE t = "OpenBrace" ->
                [same EXCEPT !.is_after_comma = FALSE, !.obj_depth = l.obj_depth + 1]
          [] t = "ClosedBrace" ->
                IF l.obj_depth = 0
                THEN [same EXCEPT !.err = build_json_err("Unexpected " \o TokenDisplay(token), line)]
                ELSE IF l.is_after_comma
                THEN [same EXCEPT !.err = build_json_err("Unexpected " \o TokenDisplay(token), line)]
                ELSE [same EXCEPT !.obj_depth = l.obj_depth - 1,
                                  !.is_json_ended = (l.is_json_ended \/ l.obj_depth - 1 = 0)]
          [] t = "NewLine" -> same
          [] t = "DoubleQuotes" ->
                [same EXCEPT !.is_after_comma = FALSE,
                             !.is_inside_literal = ~l.is_inside_literal]
          [] t = "Column" -> same
          [] t = "Comma" -> [same EXCEPT !.is_after_comma = TRUE]
          [] t = "StringLiteral" -> same
          [] t \in {"Number", "BoolTrue", "BoolFalse", "Null"} -> same
          [] t = "OpenBracket" -> same
          [] t = "ClosedBracket" -> same

\* what check_valid returns once its loop has consumed every token
CheckFinish(l, line) ==
    IF ~l.is_json_ended THEN build_json_err("Unexpected EOF", line) ELSE OkResult

(***************************************************************************)
(* Bounds and inputs                                                       *)
(***************************************************************************)
MaxLen == 4        \* every input of up to MaxLen characters of CoreChars is read

MaxMembers == 2    \* objects of up to MaxMembers members are read

MaxTokens == 9     \* parse is given every token vector of up to MaxTokens tokens

CoreChars == {"{", "}", "[", "]", ":", ",", "\"", "\n", "1", "a"}

ShortInputs == UNION {[1..n -> CoreChars] : n \in 0..MaxLen}

\* `"k":<value>` for a scalar, an empty array and an empty object
Members ==
    { << "\"", "k", "\"", ":" >> \o v : v \in { << "1" >>, << "\"", "a", " ", "b", "\"" >>,
                                               << "[", "]" >>, << "{", "}" >> } }

Separators == { << >>, << " " >>, << "\n", " " >> }

\* the members of an object of n members, each after the first led by a comma
\* and a separator
RECURSIVE MemberLists(_)
MemberLists(n) ==
    IF n = 0 THEN { << >> }
    ELSE IF n = 1 THEN Members
    ELSE { l \o << "," >> \o sep \o m : l \in MemberLists(n - 1), sep \in Separators, m \in Members }

ObjectsOf(n) == { << "{" >> \o l \o << "}" >> : l \in MemberLists(n) }

ObjectInputs == UNION { ObjectsOf(n) : n \in 0..MaxMembers }

\* a complete document, or an object left open after a colon, followed by the
\* beginning of a string, an escape, a \u sequence, a literal or a number
PartialTokens ==
    { << "\"", "a" >>, << "\"", "\\" >>, << "\"", "\\", "u", "1" >>, << "t", "r" >>,
      << "f", "a", "l" >>, << "n", "u" >>, << "-" >>, << "1", "." >>, << "1", "e" >>,
      << "1", "e", "-" >> }

TruncatedInputs ==
    { d \o p : d \in { << "{", "}" >>, << "[", "]" >>, << "{", "\"", "k", "\"", ":" >> },
               p \in PartialTokens }

\* a string holding an escape that JSON does not have (a backslash before `a`,
\* or before `u` and a non-hex character), alone and inside the containers
EscapeStrings ==
    { << "\"", "\\", "a", "\"" >>, << "\"", "\\", "u", "1", "g", "\"" >> }

EscapeInputs ==
    { a \o e \o b : e \in EscapeStrings,
                   a \in { << >>, << "{" >>, << "[" >>, << "}" >>,
                           << "{", "\"", "k", "\"", ":" >>, << "[", "1", "," >> },
                   b \in { << >>, << "}" >>, << "]" >> } }

\* numeric literals of a significand of at least 1 and an exponent of at least
\* 309, which no f64 holds (f64::MAX is below 1.8e308)
HugeLiterals ==
    { sign \o mant \o mark \o esign \o ex :
        sign \in { << >>, << "-" >> },
        mant \in { << "1" >>, << "2", ".", "6" >>, << "9", "9" >> },
        mark \in { << "e" >>, << "E" >> },
        esign \in { << >>, << "+" >> },
        ex \in { << "3", "0", "9" >>, << "1", "1", "1", "1" >> } }

HugePrefixes == { << "[" >>, << "[", "1", "," >>, << "{", "\"", "k", "\"", ":" >> }

HugeSuffixes == { << "]" >>, << " ", "}" >>, << ",", "1", "]" >>, << "\n", "]" >> }

HugeInputs == { a \o lit \o b : a \in HugePrefixes, lit \in HugeLiterals, b \in HugeSuffixes }

MaxNumLen == 4     \* every number-like text of up to MaxNumLen characters is read

NumChars == {"0", "1", ".", "e", "-", "+"}

\* what follows the number-like text: nothing, a terminator, an upper-case
\* exponent, or a character that begins another token
NumberTails ==
    { << >>, << "}" >>, << "]" >>, << "," >>, << "\n" >>, << " " >>, << "E", "1", " " >>,
      << "t" >>, << "n" >>, << "f" >>, << "[" >> }

NumberInputs ==
    { body \o tail : body \in UNION {[1..n -> NumChars] : n \in 0..MaxNumLen},
                     tail \in NumberTails }

\* a raw tab inside a string, after a backslash, and outside every string
TabInputs ==
    { << "\"", "a", "\t", "\"" >>, << "[", "\"", "\t", "\"", "]" >>, << "\t" >>,
      << "[", "\t", "]" >>, << "\"", "\\", "\t", "\"" >>,
      << "{", "\"", "k", "\"", ":", "\"", "a", "\t", "b", "\"", "}" >>,
      << "\"", "\n", "\t" >>, << "\"", "\\", "n", "\t", "\"" >>,
      << "\"", "\\", "u", "0", "0", "e", "9", "\t", "\"" >>, << "\"", "\t" >>,
      << "\"", "a", "\\", "t", "\t", "b", "\"" >>, << "\"", "a", "\"", "\"", " ", "\t", "\"" >> }

\* the three literals, each cut after any number of its characters and followed
\* by one more character, alone and as an array element
Literals == { << "t", "r", "u", "e" >>, << "f", "a", "l", "s", "e" >>, << "n", "u", "l", "l" >> }

LiteralFollowers ==
    {"t", "r", "u", "e", "f", "a", "l", "s", "n", " ", "\n", ",", "]", "1", "\"", MultiByteChar}

Cuts(str) == { SubSeq(str, 1, k) : k \in 0..Len(str) }

LiteralInputs ==
    { pre \o cut \o << c >> \o tail :
        cut \in UNION { Cuts(l) : l \in Literals }, c \in LiteralFollowers,
        pre \in { << >>, << "[" >> }, tail \in { << >>, << " " >>, << "]" >> } }
    \cup { << "[" >> \o a \o << "," >> \o b \o << "]" >> : a \in Literals, b \in Literals }
    \cup { << "\"" >> \o l \o << "\"", " " >> \o l : l \in Literals }

\* a string holding a backslash and one more character
EscapeFollowers ==
    {"\"", "\\", "b", "f", "n", "r", "t", "/", "u", "a", "B", "0", " ", "\t", "\n", "x",
     "U", "{", MultiByteChar}

\* a string holding `\u`, up to four hexadecimal digits and one more character
HexRuns == { << "0", "9", "A", "f" >>, << "a", "F", "1", "e" >>, << "b", "C", "d", "E" >>,
             << "c", "D", "B", "8" >> }

HexFollowers == HexChars \cup {"g", "G", "\"", " ", "\\", "-", "u", MultiByteChar}

BackslashInputs ==
    { << "\"" >> \o pre \o << "\\", c >> \o tail :
        c \in EscapeFollowers, pre \in { << >>, << "a" >> },
        tail \in { << "\"" >>, << "b", "\"" >> } }
    \cup { << "\"", "\\", "u" >> \o cut \o << c, "\"" >> :
             cut \in UNION { Cuts(h) : h \in HexRuns }, c \in HexFollowers }

\* what stands between the quotes of a string
StringBodies ==
    { << >>, << "a" >>, << "{", "}" >>, << "[", "]", ":", "," >>, << " ", "1", "a" >>,
      << "\\", "\"" >>, << "\\", "\\" >>, << "\\", "n" >>, << "a", "\\", "t", "b" >>,
      << "\\", "/", "\\", "b" >>, << "\\", "f", "\\", "r" >>,
      << "\\", "u", "0", "0", "e", "9" >>, << "\\", "\"", "\\", "\\", "x" >>,
      << "\\", "\"", "\\", "n", "\\", "u", "0", "0", "e", "9" >>,
      << MultiByteChar >>, << "a", "\n", "b" >>, << "t", "r", "u", "e" >>, << "-", "1" >> }

\* one string, and two strings side by side or as the elements of an array
StringInputs ==
    { << "\"" >> \o b \o << "\"" >> : b \in StringBodies }
    \cup { pre \o << "\"" >> \o a \o << "\"" >> \o sep \o << "\"" >> \o b \o << "\"" >> \o post :
             a \in StringBodies, b \in StringBodies, sep \in { << >>, << "," >>, << " " >> },
             pre \in { << >>, << "[" >> }, post \in { << >>, << "]" >> } }

InsertAt(str, i, c) == SubSeq(str, 1, i) \o << c >> \o SubSeq(str, i + 1, Len(str))

ByteBases ==
    { << >>, << "\"", "a", "b", "\"" >>, << "1", "2", " " >>, << "-", "1", ".", "5", "e", "-", "1", " " >>,
      << "t", "r", "u", "e" >>, << "f", "a", "l", "s", "e" >>, << "n", "u", "l", "l" >>,
      << "\"", "\\", "n", "\"" >>, << "\"", "\\", "u", "0", "0", "e", "9", "\"" >>,
      << "[", "1", ",", "\"", "a", "\"", "]" >>, << "{", "\"", "k", "\"", ":", "1", "}" >>,
      << "{", "\"", "\"", ":", "\"", "\"", "}" >>, << "[", "1", "]", "\n", "[", "2", "]" >>,
      << "a", "\n" >>, << "\n", "a" >>, << "{", "\n", "}", "\n" >> }

\* a character of two bytes at every place of a text
Insertions(c) == UNION { { InsertAt(b, i, c) : i \in 0..Len(b) } : b \in ByteBases }

MultiByteInputs == Insertions(MultiByteChar)

\* a byte that is not UTF-8 at every place of a text
InvalidUtf8Inputs == Insertions(InvalidByte)

Inputs ==
    ShortInputs \cup ObjectInputs \cup TruncatedInputs \cup EscapeInputs \cup HugeInputs
        \cup NumberInputs \cup TabInputs \cup LiteralInputs \cup BackslashInputs
        \cup StringInputs \cup MultiByteInputs \cup InvalidUtf8Inputs

\* one token of each kind; the payloads do not reach parse's match
TokenValues ==
    { Token(k) : k \in {"OpenBrace", "ClosedBrace", "OpenBracket", "ClosedBracket", "NewLine",
                        "DoubleQuotes", "Column", "Comma", "BoolTrue", "BoolFalse", "Null"} }
    \cup { StringLiteral(<< "k" >>), Number(FloatValue(<< "1" >>)) }

(***************************************************************************)
(* check_valid on a reader: lex, chunk by chunk, then the token loop       *)
(***************************************************************************)
Init ==
    /\ input \in Inputs
    /\ pos = 0
    /\ pc = "read"
    /\ s = << >>
    /\ si = 0
    /\ state = Normal
    /\ curr_string_literal = << >>
    /\ curr_number_string = << >>
    /\ lex_tokens = << >>
    /\ tokens = << >>
    /\ ti = 0
    /\ current_line = 1
    /\ obj_depth = 0
    /\ is_inside_array = FALSE
    /\ is_json_ended = FALSE
    /\ is_inside_literal = FALSE
    /\ is_after_comma = FALSE
    /\ pstate = NewState
    /\ result = NoResult
    /\ other = NoResult
    /\ formatted = ""
    /\ eq = FALSE
    /\ calls = << >>

\* the index of the last byte read_until(b'\n') takes, reading from pos + 1
ChunkEnd ==
    IF \E i \in (pos + 1)..Len(input) : input[i] = "\n"
    THEN CHOOSE i \in (pos + 1)..Len(input) :
            input[i] = "\n" /\ \A j \in (pos + 1)..(i - 1) : input[j] # "\n"
    ELSE Len(input)

\* read_until returns Ok(n), n > 0: from_utf8 panics on a chunk that is not
\* UTF-8; otherwise the chunk is tokenized from State::Normal with two empty
\* buffers
ReadChunk ==
    /\ pc = "read"
    /\ UNCHANGED << other, formatted, eq, calls >>
    /\ pos < Len(input)
    /\ pos' = ChunkEnd
    /\ IF from_utf8_ok(SubSeq(input, pos + 1, ChunkEnd))
       THEN /\ s' = SubSeq(input, pos + 1, ChunkEnd)
            /\ si' = 0
            /\ state' = Normal
            /\ curr_string_literal' = << >>
            /\ curr_number_string' = << >>
            /\ pc' = "chars"
       ELSE /\ pc' = "panicked"
            /\ UNCHANGED << s, si, state, curr_string_literal, curr_number_string >>
    /\ UNCHANGED << input, lex_tokens, tokens, ti, current_line, obj_depth, is_inside_array,
                    is_json_ended, is_inside_literal, is_after_comma, pstate, result >>

\* read_until returns Ok(0): lex returns Ok(tokens), JSONParser::lex stores them
\* and check_valid sets up its loop
ReadEof ==
    /\ pc = "read"
    /\ UNCHANGED << other, formatted, eq, calls >>
    /\ pos = Len(input)
    /\ tokens' = lex_tokens
    /\ ti' = 0
    /\ current_line' = 1
    /\ obj_depth' = 0
    /\ is_inside_array' = FALSE
    /\ is_json_ended' = FALSE
    /\ is_inside_literal' = FALSE
    /\ is_after_comma' = FALSE
    /\ pc' = "validate"
    /\ UNCHANGED << input, pos, s, si, state, curr_string_literal, curr_number_string,
                    lex_tokens, pstate, result >>

\* LexChar with lex's Err dropped (`let _ = p.lex();`): the token loop runs on
\* the empty vector JSONParser::new made
LexCharDroppingError ==
    /\ pc = "chars"
    /\ UNCHANGED << other, formatted, eq, calls >>
    /\ si < Len(s)
    /\ LET out == LexStep(s[si + 1], state, curr_string_literal, curr_number_string)
       IN  IF out.err.status = "Err"
           THEN /\ pc' = "validate"
                /\ UNCHANGED << si, state, curr_string_literal, curr_number_string,
                                lex_tokens, result >>
           ELSE /\ state' = out.state
                /\ curr_string_literal' = out.lit
                /\ curr_number_string' = out.num
                /\ lex_tokens' = lex_tokens \o out.pushed
                /\ si' = si + 1
                /\ pc' = IF si + 1 = Len(s) THEN "read" ELSE "chars"
                /\ UNCHANGED result
    /\ UNCHANGED << input, pos, s, tokens, ti, current_line, obj_depth, is_inside_array,
                    is_json_ended, is_inside_literal, is_after_comma, pstate >>

\* one iteration of `for c in s.chars()`; an Err leaves lex and, through `?`,
\* check_valid
LexChar ==
    /\ pc = "chars"
    /\ UNCHANGED << other, formatted, eq, calls >>
    /\ si < Len(s)
    /\ LET out == LexStep(s[si + 1], state, curr_string_literal, curr_number_string)
       IN  IF out.err.status = "Err"
           THEN /\ result' = out.err
                /\ pc' = "done"
                /\ UNCHANGED << si, state, curr_string_literal, curr_number_string, lex_tokens >>
           ELSE /\ state' = out.state
                /\ curr_string_literal' = out.lit
                /\ curr_number_string' = out.num
                /\ lex_tokens' = lex_tokens \o out.pushed
                /\ si' = si + 1
                /\ pc' = IF si + 1 = Len(s) THEN "read" ELSE "chars"
                /\ UNCHANGED result
    /\ UNCHANGED << input, pos, s, tokens, ti, current_line, obj_depth, is_inside_array,
                    is_json_ended, is_inside_literal, is_after_comma, pstate >>

\* one iteration of check_valid's `for token in &p.tokens`
CheckToken ==
    /\ pc = "validate"
    /\ UNCHANGED << other, formatted, eq, calls >>
    /\ ti < Len(tokens)
    /\ LET out == CheckStep(CheckLocals(obj_depth, is_inside_array, is_json_ended,
                                        is_inside_literal, is_after_comma),
                            tokens[ti + 1], current_line)
       IN  IF out.err.status = "Err"
           THEN /\ result' = out.err
                /\ pc' = "done"
                /\ UNCHANGED << ti, obj_depth, is_inside_array, is_json_ended,
                                is_inside_literal, is_after_comma >>
           ELSE /\ obj_depth' = out.obj_depth
                /\ is_inside_array' = out.is_inside_array
                /\ is_json_ended' = out.is_json_ended
                /\ is_inside_literal' = out.is_inside_literal
                /\ is_after_comma' = out.is_after_comma
                /\ ti' = ti + 1
                /\ UNCHANGED << pc, result >>
    /\ UNCHANGED << input, pos, s, si, state, curr_string_literal, curr_number_string,
                    lex_tokens, tokens, current_line, pstate >>

\* check_valid after its loop
CheckEnd ==
    /\ pc = "validate"
    /\ UNCHANGED << other, formatted, eq, calls >>
    /\ ti = Len(tokens)
    /\ result' = CheckFinish(CheckLocals(obj_depth, is_inside_array, is_json_ended,
                                         is_inside_literal, is_after_comma), current_line)
    /\ pc' = "done"
    /\ UNCHANGED << input, pos, s, si, state, curr_string_literal, curr_number_string,
                    lex_tokens, tokens, ti, current_line, obj_depth, is_inside_array,
                    is_json_ended, is_inside_literal, is_after_comma, pstate >>

Next == ReadChunk \/ ReadEof \/ LexChar \/ CheckToken \/ CheckEnd

Spec == Init /\ [][Next]_vars

(***************************************************************************)
(* parse on a token vector: tokens holds the tokens its loop has consumed  *)
(***************************************************************************)
InitParse ==
    /\ input = << >>
    /\ pos = 0
    /\ pc = "parse"
    /\ s = << >>
    /\ si = 0
    /\ state = Normal
    /\ curr_string_literal = << >>
    /\ curr_number_string = << >>
    /\ lex_tokens = << >>
    /\ tokens = << >>
    /\ ti = 0
    /\ current_line = 1
    /\ obj_depth = 0
    /\ is_inside_array = FALSE
    /\ is_json_ended = FALSE
    /\ is_inside_literal = FALSE
    /\ is_after_comma = FALSE
    /\ pstate = NewState
    /\ result = NoResult
    /\ other = NoResult
    /\ formatted = ""
    /\ eq = FALSE
    /\ calls = << >>

\* one iteration of parse's `for token in &tokens`, whatever the next token is
ParseToken ==
    /\ pc = "parse"
    /\ UNCHANGED << other, formatted, eq, calls >>
    /\ Len(tokens) < MaxTokens
    /\ \E token \in TokenValues :
          LET out == ParseStep(pstate, token)
          IN  /\ tokens' = Append(tokens, token)
              /\ ti' = ti + 1
              /\ IF out.err.status = "Err"
                 THEN /\ result' = out.err
                      /\ pc' = "done"
                      /\ UNCHANGED pstate
                 ELSE /\ pstate' = [state_kind |-> out.state_kind,
                                    obj_arr_stack |-> out.obj_arr_stack]
                      /\ UNCHANGED << pc, result >>
    /\ UNCHANGED << input, pos, s, si, state, curr_string_literal, curr_number_string,
                    lex_tokens, current_line, obj_depth, is_inside_array, is_json_ended,
                    is_inside_literal, is_after_comma >>

\* parse after its loop: the vector held no more tokens
ParseEnd ==
    /\ pc = "parse"
    /\ UNCHANGED << other, formatted, eq, calls >>
    /\ result' = ParseFinish(pstate)
    /\ pc' = "done"
    /\ UNCHANGED << input, pos, s, si, state, curr_string_literal, curr_number_string,
                    lex_tokens, tokens, ti, current_line, obj_depth, is_inside_array,
                    is_json_ended, is_inside_literal, is_after_comma, pstate >>

NextParse == ParseToken \/ ParseEnd

SpecParse == InitParse /\ [][NextParse]_vars

(***************************************************************************)
(* Several check_valid calls in flight, each on a reader of its own.  A    *)
(* call is a record of what the call owns: its JSONParser (reader,         *)
(* tokens, current_line), the locals of lex and the locals of check_valid. *)
(* The code has no static and no global: a step of a call reads and writes *)
(* that record only.                                                       *)
(***************************************************************************)
MaxCallLen == 2    \* each call reads an input of up to MaxCallLen characters

CallIds == {1, 2}

CallChars == {"{", "}", "a", "\n"}

CallInputs == UNION {[1..n -> CallChars] : n \in 0..MaxCallLen}

\* JSONParser::new(reader) and the entry of check_valid
NewCall(bytes) ==
    [input |-> bytes, pos |-> 0, pc |-> "read", s |-> << >>, si |-> 0, state |-> Normal,
     curr_string_literal |-> << >>, curr_number_string |-> << >>, lex_tokens |-> << >>,
     tokens |-> << >>, ti |-> 0, current_line |-> 1,
     locals |-> CheckLocals(0, FALSE, FALSE, FALSE, FALSE), result |-> NoResult]

\* read_until: Ok(n) starts a chunk, Ok(0) ends lex and sets up the token loop
CallRead(c) ==
    IF c.pos < Len(c.input)
            /\ ~from_utf8_ok(SubSeq(c.input, c.pos + 1, ChunkEndFrom(c.input, c.pos)))
    THEN [c EXCEPT !.pos = ChunkEndFrom(c.input, c.pos), !.pc = "panicked"]
    ELSE IF c.pos < Len(c.input)
    THEN [c EXCEPT !.s = SubSeq(c.input, c.pos + 1, ChunkEndFrom(c.input, c.pos)),
                   !.pos = ChunkEndFrom(c.input, c.pos), !.si = 0, !.state = Normal,
                   !.curr_string_literal = << >>, !.curr_number_string = << >>,
                   !.pc = "chars"]
    ELSE [c EXCEPT !.tokens = c.lex_tokens, !.ti = 0, !.current_line = 1,
                   !.locals = CheckLocals(0, FALSE, FALSE, FALSE, FALSE), !.pc = "validate"]

\* one iteration of lex's `for c in s.chars()`, out being what LexStep gave
CallLex(c, out) ==
    IF out.err.status = "Err"
    THEN [c EXCEPT !.result = out.err, !.pc = "done"]
    ELSE [c EXCEPT !.state = out.state, !.curr_string_literal = out.lit,
                   !.curr_number_string = out.num,
                   !.lex_tokens = c.lex_tokens \o out.pushed, !.si = c.si + 1,
                   !.pc = IF c.si + 1 = Len(c.s) THEN "read" ELSE "chars"]

\* one iteration of check_valid's token loop, out being what CheckStep gave
CallCheck(c, out) ==
    IF out.err.status = "Err"
    THEN [c EXCEPT !.result = out.err, !.pc = "done"]
    ELSE [c EXCEPT !.locals = out, !.ti = c.ti + 1]

\* the next step of a call that has not returned
CallStep(c) ==
    CASE c.pc = "read" -> CallRead(c)
      [] c.pc = "chars" ->
            CallLex(c, LexStep(c.s[c.si + 1], c.state, c.curr_string_literal,
                               c.curr_number_string))
      [] c.pc = "validate" /\ c.ti < Len(c.tokens) ->
            CallCheck(c, CheckStep(c.locals, c.tokens[c.ti + 1], c.current_line))
      [] c.pc = "validate" /\ c.ti >= Len(c.tokens) ->
            [c EXCEPT !.result = CheckFinish(c.locals, c.current_line), !.pc = "done"]

\* a call run alone, from its current step to its return
RECURSIVE RunCall(_)
RunCall(c) == IF c.pc \in {"done", "panicked"} THEN c ELSE RunCall(CallStep(c))

check_valid(bytes) == RunCall(NewCall(bytes)).result

InitCalls ==
    /\ calls \in [CallIds -> { NewCall(bytes) : bytes \in CallInputs }]
    /\ pc = "calls"
    /\ input = << >>
    /\ pos = 0
    /\ s = << >>
    /\ si = 0
    /\ state = Normal
    /\ curr_string_literal = << >>
    /\ curr_number_string = << >>
    /\ lex_tokens = << >>
    /\ tokens = << >>
    /\ ti = 0
    /\ current_line = 1
    /\ obj_depth = 0
    /\ is_inside_array = FALSE
    /\ is_json_ended = FALSE
    /\ is_inside_literal = FALSE
    /\ is_after_comma = FALSE
    /\ pstate = NewState
    /\ result = NoResult
    /\ other = NoResult
    /\ formatted = ""
    /\ eq = FALSE

\* StepCall with the token vector a static that every call writes through
StepCallSharedTokens(k) ==
    /\ calls[k].pc \notin {"done", "panicked"}
    /\ calls' = [j \in CallIds |->
                    IF j = k THEN CallStep(calls[k])
                    ELSE [calls[j] EXCEPT !.lex_tokens = CallStep(calls[k]).lex_tokens]]
    /\ UNCHANGED << input, pos, pc, s, si, state, curr_string_literal, curr_number_string,
                    lex_tokens, tokens, ti, current_line, obj_depth, is_inside_array,
                    is_json_ended, is_inside_literal, is_after_comma, pstate, result,
                    other, formatted, eq >>

\* the scheduler runs one step of call k
StepCall(k) ==
    /\ calls[k].pc \notin {"done", "panicked"}
    /\ calls' = [calls EXCEPT ![k] = CallStep(calls[k])]
    /\ UNCHANGED << input, pos, pc, s, si, state, curr_string_literal, curr_number_string,
                    lex_tokens, tokens, ti, current_line, obj_depth, is_inside_array,
                    is_json_ended, is_inside_literal, is_after_comma, pstate, result,
                    other, formatted, eq >>

NextCalls == \E k \in CallIds : StepCall(k)

SpecCalls == InitCalls /\ [][NextCalls]_vars

(***************************************************************************)
(* JSONError::new, Display and == on diagnostics (parser/error.rs)         *)
(***************************************************************************)
MaxLine == 12      \* the lines of the diagnostics are -MaxLine..MaxLine

Messages == {"", "Unexpected EOF", "Unexpected '}'", "Unexpected EOF: at line 1"}

Diagnostics == { JSONError(m, n) : m \in Messages, n \in (0 - MaxLine)..MaxLine }

InitDisplay ==
    /\ result \in Diagnostics
    /\ other \in Diagnostics
    /\ formatted = ""
    /\ eq = FALSE
    /\ pc = "fmt"
    /\ input = << >>
    /\ pos = 0
    /\ s = << >>
    /\ si = 0
    /\ state = Normal
    /\ curr_string_literal = << >>
    /\ curr_number_string = << >>
    /\ lex_tokens = << >>
    /\ tokens = << >>
    /\ ti = 0
    /\ current_line = 1
    /\ obj_depth = 0
    /\ is_inside_array = FALSE
    /\ is_json_ended = FALSE
    /\ is_inside_literal = FALSE
    /\ is_after_comma = FALSE
    /\ pstate = NewState
    /\ calls = << >>

\* `{}` applied to the diagnostic, as main does with eprintln!
Fmt ==
    /\ pc = "fmt"
    /\ formatted' = JSONErrorDisplay(result)
    /\ pc' = "eq"
    /\ UNCHANGED << input, pos, s, si, state, curr_string_literal, curr_number_string,
                    lex_tokens, tokens, ti, current_line, obj_depth, is_inside_array,
                    is_json_ended, is_inside_literal, is_after_comma, pstate, result,
                    other, eq, calls >>

\* result == other
Eq ==
    /\ pc = "eq"
    /\ eq' = JSONErrorEq(result, other)
    /\ pc' = "compared"
    /\ UNCHANGED << input, pos, s, si, state, curr_string_literal, curr_number_string,
                    lex_tokens, tokens, ti, current_line, obj_depth, is_inside_array,
                    is_json_ended, is_inside_literal, is_after_comma, pstate, result,
                    other, formatted, calls >>

NextDisplay == Fmt \/ Eq

SpecDisplay == InitDisplay /\ [][NextDisplay]_vars

(***************************************************************************)
(* The JSON grammar of RFC 8259, with an object or an array as the root:   *)
(* the reference the claims about well-formed and defective documents are  *)
(* stated against.  RefRun reads a document character by character and     *)
(* stops at its first defect.                                              *)
(***************************************************************************)
RefWhitespace == {" ", "\n", "\t", "\r"}

RefControl == {"\n", "\t", "\r"}

RefStart ==
    [mode |-> "start", stack |-> << >>, key |-> FALSE, rest |-> << >>, hex |-> 0,
     ok |-> TRUE, at |-> ""]

RefFail(r, c) == [r EXCEPT !.ok = FALSE, !.at = c]

RefMode(r, mode) == [r EXCEPT !.mode = mode]

RefTop(r) == IF r.stack = << >> THEN "none" ELSE r.stack[Len(r.stack)]

RefPop(r) == [r EXCEPT !.mode = "after", !.stack = SubSeq(r.stack, 1, Len(r.stack) - 1)]

\* c begins a value
RefBeginValue(r, c) ==
    CASE c = "{" -> [r EXCEPT !.mode = "key0", !.stack = Append(r.stack, "o")]
      [] c = "[" -> [r EXCEPT !.mode = "first", !.stack = Append(r.stack, "a")]
      [] c = "\"" -> [r EXCEPT !.mode = "str", !.key = FALSE]
      [] c = "-" -> RefMode(r, "nsign")
      [] c = "0" -> RefMode(r, "nzero")
      [] c \in NonZeroDigitChars -> RefMode(r, "nint")
      [] c = "t" -> [r EXCEPT !.mode = "lit", !.rest = << "r", "u", "e" >>]
      [] c = "f" -> [r EXCEPT !.mode = "lit", !.rest = << "a", "l", "s", "e" >>]
      [] c = "n" -> [r EXCEPT !.mode = "lit", !.rest = << "u", "l", "l" >>]
      [] OTHER -> RefFail(r, c)

\* c follows a complete value
RefAfterValue(r, c) ==
    CASE c \in RefWhitespace -> RefMode(r, "after")
      [] c = "," /\ RefTop(r) = "o" -> RefMode(r, "key")
      [] c = "," /\ RefTop(r) = "a" -> RefMode(r, "value")
      [] c = "}" /\ RefTop(r) = "o" -> RefPop(r)
      [] c = "]" /\ RefTop(r) = "a" -> RefPop(r)
      [] OTHER -> RefFail(r, c)

RefStepString(r, c) ==
    CASE r.mode = "str" /\ c = "\"" -> RefMode(r, IF r.key THEN "colon" ELSE "after")
      [] r.mode = "str" /\ c = "\\" -> RefMode(r, "esc")
      [] r.mode = "str" /\ c \notin ({"\"", "\\"} \cup RefControl) -> r
      [] r.mode = "esc" /\ c \in {"\"", "\\", "/", "b", "f", "n", "r", "t"} -> RefMode(r, "str")
      [] r.mode = "esc" /\ c = "u" -> [r EXCEPT !.mode = "hex", !.hex = 0]
      [] r.mode = "hex" /\ c \in HexChars ->
            IF r.hex = 3 THEN RefMode(r, "str") ELSE [r EXCEPT !.hex = r.hex + 1]
      [] r.mode = "lit" /\ c = Head(r.rest) ->
            IF Len(r.rest) = 1 THEN RefMode(r, "after") ELSE [r EXCEPT !.rest = Tail(r.rest)]
      [] OTHER -> RefFail(r, c)

RefStepNumber(r, c) ==
    CASE r.mode = "nsign" /\ c = "0" -> RefMode(r, "nzero")
      [] r.mode = "nsign" /\ c \in NonZeroDigitChars -> RefMode(r, "nint")
      [] r.mode = "nsign" /\ c \notin DigitChars -> RefFail(r, c)
      [] r.mode \in {"nzero", "nint"} /\ c = "." -> RefMode(r, "npoint")
      [] r.mode \in {"nzero", "nint", "nfrac"} /\ c \in {"e", "E"} -> RefMode(r, "nexp")
      [] r.mode \in {"nint", "nfrac", "nexpint"} /\ c \in DigitChars -> r
      [] r.mode = "npoint" /\ c \in DigitChars -> RefMode(r, "nfrac")
      [] r.mode = "nexp" /\ c \in {"+", "-"} -> RefMode(r, "nexpsign")
      [] r.mode \in {"nexp", "nexpsign"} /\ c \in DigitChars -> RefMode(r, "nexpint")
      [] r.mode \in {"npoint", "nexp", "nexpsign"} /\ c \notin DigitChars
            /\ ~(r.mode = "nexp" /\ c \in {"+", "-"}) -> RefFail(r, c)
      [] OTHER -> RefAfterValue(r, c)

RefStep(r, c) ==
    CASE r.mode = "start" ->
            IF c \in RefWhitespace THEN r
            ELSE IF c \in {"{", "["} THEN RefBeginValue(r, c) ELSE RefFail(r, c)
      [] r.mode = "value" -> IF c \in RefWhitespace THEN r ELSE RefBeginValue(r, c)
      [] r.mode = "first" ->
            IF c \in RefWhitespace THEN r
            ELSE IF c = "]" THEN RefPop(r) ELSE RefBeginValue(r, c)
      [] r.mode = "key0" ->
            IF c \in RefWhitespace THEN r
            ELSE IF c = "}" THEN RefPop(r)
            ELSE IF c = "\"" THEN [r EXCEPT !.mode = "str", !.key = TRUE] ELSE RefFail(r, c)
      [] r.mode = "key" ->
            IF c \in RefWhitespace THEN r
            ELSE IF c = "\"" THEN [r EXCEPT !.mode = "str", !.key = TRUE] ELSE RefFail(r, c)
      [] r.mode = "colon" ->
            IF c \in RefWhitespace THEN r
            ELSE IF c = ":" THEN RefMode(r, "value") ELSE RefFail(r, c)
      [] r.mode = "after" -> RefAfterValue(r, c)
      [] r.mode \in {"str", "esc", "hex", "lit"} -> RefStepString(r, c)
      [] OTHER -> RefStepNumber(r, c)

RECURSIVE RefFrom(_, _)
RefFrom(r, str) ==
    IF str = << >> \/ ~r.ok THEN r ELSE RefFrom(RefStep(r, Head(str)), Tail(str))

RefRun(str) == RefFrom(RefStart, str)

\* the document is a complete JSON text whose root is an object or an array
WellFormed(str) ==
    LET r == RefRun(str) IN r.ok /\ r.stack = << >> /\ r.mode = "after"

\* no defect so far, and at least one `{` or `[` is still open at the end
UnclosedAtEnd(str) ==
    LET r == RefRun(str) IN r.ok /\ r.stack # << >>

\* the first defect is a `]` that follows a comma inside an array
ArrayTrailingComma(str) ==
    LET r == RefRun(str) IN ~r.ok /\ r.at = "]" /\ r.mode = "value" /\ RefTop(r) = "a"

\* the first defect is a `}` that follows a comma inside an object
ObjectTrailingComma(str) ==
    LET r == RefRun(str) IN ~r.ok /\ r.at = "}" /\ r.mode = "key"

(***************************************************************************)
(* Claims                                                                  *)
(***************************************************************************)
\* lex followed by parse: lex's diagnostic if lex fails, else parse's result
Pipeline(bytes) ==
    IF lex(bytes).err.status = "Err" THEN lex(bytes).err ELSE parse(lex(bytes).tokens)

\* C1: for every input stream, check_valid returns exactly what lex followed by
\* parse returns: lex's diagnostic if lex fails, otherwise the verdict and
\* message of parse on lex's token sequence.
C1_CheckValidIsPipeline == pc = "done" => result = Pipeline(input)

\* C2: for every well-formed JSON document, check_valid returns Ok(()).
C2_WellFormedAccepted == (pc = "done" /\ WellFormed(input)) => result = OkResult

MultiMemberObjects == UNION { ObjectsOf(n) : n \in 2..MaxMembers }

\* C3: check_valid returns Ok(()) for every well-formed object of two or more
\* members separated by commas, with or without spaces and line breaks
\* between the members.
C3_MultiMemberObjectAccepted ==
    (pc = "done" /\ input \in MultiMemberObjects /\ WellFormed(input)) => result = OkResult

\* C4: check_valid returns Ok(()) only for well-formed JSON: an input with a
\* defect in the key/colon/value alternation, a missing or misplaced comma, a
\* closer of the wrong kind or content after the root container is rejected.
C4_OnlyWellFormedAccepted == (pc = "done" /\ result.status = "Ok") => WellFormed(input)

\* C5: for the empty input, and for every input with no earlier defect in which
\* a `{` or `[` is still open when the input ends, check_valid fails with the
\* message "Unexpected EOF".
C5_UnclosedIsUnexpectedEof ==
    (pc = "done" /\ (input = << >> \/ UnclosedAtEnd(input)))
        => (result.status = "Err" /\ result.message = "Unexpected EOF")

\* the last token before index i that is no line break (0 if there is none)
PrevSignificant(toks, i) ==
    IF \E j \in 1..(i - 1) : toks[j].kind # "NewLine"
    THEN CHOOSE j \in 1..(i - 1) :
            toks[j].kind # "NewLine" /\ \A k \in (j + 1)..(i - 1) : toks[k].kind = "NewLine"
    ELSE 0

\* the containers a token sequence leaves open, outermost first, by matching
\* each closer with the most recent opener
RECURSIVE OpenContainers(_, _)
OpenContainers(toks, open) ==
    IF toks = << >> THEN open
    ELSE OpenContainers(Tail(toks),
            CASE Head(toks).kind = "OpenBrace" -> Append(open, "o")
              [] Head(toks).kind = "OpenBracket" -> Append(open, "a")
              [] Head(toks).kind \in {"ClosedBrace", "ClosedBracket"} /\ open # << >> ->
                    SubSeq(open, 1, Len(open) - 1)
              [] OTHER -> open)

\* the last token parse consumed is a closer of this kind, the token before it
\* (line breaks aside) is a comma, and the innermost open container is of this kind
CloserAfterComma(closer, container) ==
    /\ Len(tokens) >= 2
    /\ tokens[Len(tokens)].kind = closer
    /\ PrevSignificant(tokens, Len(tokens)) > 0
    /\ tokens[PrevSignificant(tokens, Len(tokens))].kind = "Comma"
    /\ LET open == OpenContainers(SubSeq(tokens, 1, Len(tokens) - 1), << >>)
       IN  open # << >> /\ open[Len(open)] = container

NestingBeforeLast == Len(OpenContainers(SubSeq(tokens, 1, Len(tokens) - 1), << >>))

\* C6: parse rejects trailing commas at every nesting depth: a `}` after a comma
\* in an object returns Err("Unexpected '}'"), a `]` after a comma in an array
\* returns Err("Unexpected ']'").
C6_TrailingCommaRejected ==
    /\ CloserAfterComma("ClosedBrace", "o") => result = JSONError("Unexpected '}'", 1)
    /\ CloserAfterComma("ClosedBracket", "a") => result = JSONError("Unexpected ']'", 1)

\* an object nested in an object is closed directly after a comma, and parse
\* has returned the error
C6_Witness ==
    /\ CloserAfterComma("ClosedBrace", "o")
    /\ NestingBeforeLast >= 2
    /\ pc = "done"
    /\ result = JSONError("Unexpected '}'", 1)

\* C7: check_valid rejects a trailing comma in an array, at the root or at any
\* depth, and the diagnostic names the closing bracket: "Unexpected ']'".
C7_ArrayTrailingCommaNamed ==
    (pc = "done" /\ ArrayTrailingComma(input))
        => (result.status = "Err" /\ result.message = "Unexpected ']'")

\* the index of the closer that closes the root container (0 if none does)
RootCloseIndex(toks) ==
    IF \E i \in 1..Len(toks) :
            toks[i].kind \in {"ClosedBrace", "ClosedBracket"}
            /\ OpenContainers(SubSeq(toks, 1, i), << >>) = << >>
    THEN CHOOSE i \in 1..Len(toks) :
            /\ toks[i].kind \in {"ClosedBrace", "ClosedBracket"}
            /\ OpenContainers(SubSeq(toks, 1, i), << >>) = << >>
            /\ \A j \in 1..(i - 1) :
                  ~(toks[j].kind \in {"ClosedBrace", "ClosedBracket"}
                    /\ OpenContainers(SubSeq(toks, 1, j), << >>) = << >>)
    ELSE 0

NoContentAfterRoot(toks) ==
    RootCloseIndex(toks) > 0
        => \A j \in (RootCloseIndex(toks) + 1)..Len(toks) : toks[j].kind = "NewLine"

\* C8: in parse, End is absorbing: once the root container is closed, a line
\* break leaves the state at End and any other token returns
\* Err("Unexpected <rendering>"), so no token sequence with content after the
\* root container is accepted.
C8_EndIsAbsorbing ==
    /\ [][ (pc = "parse" /\ pstate.state_kind = "End" /\ tokens' # tokens)
              => IF tokens'[Len(tokens')].kind = "NewLine"
                 THEN pstate' = pstate /\ result' = NoResult /\ pc' = "parse"
                 ELSE /\ pc' = "done"
                      /\ result' = JSONError("Unexpected "
                                        \o TokenDisplay(tokens'[Len(tokens')]), 1) ]_vars
    /\ [](result.status = "Ok" => NoContentAfterRoot(tokens))

\* the root container is closed, a line break is skipped, and the number that
\* follows is rejected
C8_Witness ==
    /\ pc = "done"
    /\ pstate.state_kind = "End"
    /\ Len(tokens) >= 4
    /\ tokens[Len(tokens)].kind = "Number"
    /\ tokens[Len(tokens) - 1].kind = "NewLine"
    /\ RootCloseIndex(tokens) = Len(tokens) - 2
    /\ result = JSONError("Unexpected '<number>'", 1)

\* lex has read the whole input without an error and its last state is inside
\* a string, an escape, a \u sequence, a literal, or a number that is not final
EndsInsideToken ==
    /\ pos = Len(input)
    /\ si = Len(s)
    /\ \/ state.kind \in {"ValueStringLiteral", "Escaping", "Hex",
                          "ValueTrue", "ValueFalse", "ValueNull"}
       \/ state.kind = "ValueNumber" /\ ~is_final(state.n)

\* C9: an input whose end falls inside a string literal, an escape or \uXXXX
\* sequence, a true/false/null literal or a number in a non-final sub-state is
\* rejected: neither check_valid nor lex followed by parse returns Ok(()).
C9_PartialTokenRejected ==
    (pc = "done" /\ EndsInsideToken)
        => (result.status # "Ok" /\ Pipeline(input).status # "Ok")

LineBreaksBefore(i) == Cardinality({ j \in 1..(i - 1) : input[j] = "\n" })

NewLinesBefore(i) == Cardinality({ j \in 1..(i - 1) : tokens[j].kind = "NewLine" })

\* every line break of the input became a NewLine token
LineBreaksAreTokens == LineBreaksBefore(Len(input) + 1) = NewLinesBefore(Len(tokens) + 1)

\* C10: a diagnostic carries the 1-based line of the defect: 1 + the number of
\* line breaks consumed before the offending character (lex) or token
\* (check_valid).
C10_LineOfDefect ==
    (pc = "done" /\ result.status = "Err")
        => IF si < Len(s)
           THEN result.line = 1 + LineBreaksBefore(pos - Len(s) + si + 1)
           ELSE (ti < Len(tokens) /\ LineBreaksAreTokens)
                    => result.line = 1 + NewLinesBefore(ti + 1)

\* the character at index i is a `}` that is a token of its own, and only line
\* breaks come before it
StrayClosedBraceFirst(bytes, i) ==
    /\ bytes[i] = "}"
    /\ lex(SubSeq(bytes, 1, i)).err.status # "Err"
    /\ LET toks == lex(SubSeq(bytes, 1, i)).tokens
       IN  /\ toks # << >>
           /\ toks[Len(toks)].kind = "ClosedBrace"
           /\ \A j \in 1..(Len(toks) - 1) : toks[j].kind = "NewLine"

\* C11: the diagnostic check_valid returns is the one of the earliest defect of
\* the document: when a `}` with no open container comes before a lexical
\* defect, the diagnostic is the structural one, "Unexpected '}'".
C11_EarliestDefectReported ==
    (pc = "done" /\ \E i \in 1..Len(input) : StrayClosedBraceFirst(input, i))
        => (result.status = "Err" /\ result.message = "Unexpected '}'")

\* C12: whenever lex returns a diagnostic, check_valid returns that diagnostic,
\* message and line unchanged, and its token loop has processed no token; so a
\* string with an illegal escape fails lexically whatever surrounds it.
C12_LexDiagnosticPropagated ==
    (pc = "done" /\ lex(input).err.status = "Err")
        => (result = lex(input).err /\ tokens = << >> /\ ti = 0 /\ obj_depth = 0)

\* a string with an illegal escape follows `{"k":` and check_valid has returned
\* the tokenizer's diagnostic for the escaped character
C12_Witness ==
    /\ pc = "done"
    /\ input = << "{", "\"", "k", "\"", ":", "\"", "\\", "a", "\"", "}" >>
    /\ lex_tokens # << >>
    /\ result = JSONError("Unexpected 'a'", 1)

\* the character at index i is a `}`, the document has no defect before it and
\* no container is open there
ClosedBraceOutside(bytes, i) ==
    /\ bytes[i] = "}"
    /\ RefRun(SubSeq(bytes, 1, i - 1)).ok
    /\ RefRun(SubSeq(bytes, 1, i - 1)).stack = << >>

\* the tokens before that `}`
TokensBefore(bytes, i) == lex(SubSeq(bytes, 1, i - 1)).tokens

\* parse consumes these tokens without returning from its loop
ParseConsumes(toks) == parse(toks).message \in {"", "Unexpected EOF"}

Numerals == << "0", "1", "2", "3", "4", "5", "6", "7", "8", "9" >>

\* the decimal numeral of a line number of at most three digits
LineNumeral(n) ==
    LET m == IF n < 0 THEN 0 - n ELSE n
        sign == IF n < 0 THEN "-" ELSE ""
    IN  IF m < 10 THEN sign \o Numerals[m + 1]
        ELSE IF m < 100 THEN sign \o Numerals[(m \div 10) + 1] \o Numerals[(m % 10) + 1]
        ELSE sign \o Numerals[(m \div 100) + 1] \o Numerals[((m \div 10) % 10) + 1]
                  \o Numerals[(m % 10) + 1]

\* C14: a diagnostic with message m and line n renders through Display exactly
\* as "m: at line n", and two diagnostics are equal iff their message and
\* their line are equal.
C14_DisplayAndEquality ==
    /\ pc \in {"eq", "compared"}
          => formatted = result.message \o ": at line " \o LineNumeral(result.line)
    /\ pc = "compared"
          => (eq <=> (result.message = other.message /\ result.line = other.line))

\* a diagnostic of line 10 has been rendered and compared with one that has
\* the same message and another line
C14_Witness ==
    /\ pc = "compared"
    /\ result = JSONError("Unexpected EOF", 10)
    /\ formatted = "Unexpected EOF: at line 10"
    /\ other = JSONError("Unexpected EOF", 1)
    /\ eq = FALSE

\* f64::INFINITY and f64::NEG_INFINITY
Infinity(neg) == [class |-> "inf", neg |-> neg, digits |-> << >>, exp |-> 0]

\* the tokens of a, one Number of the infinity of lit's sign, the tokens of b
TokensAroundInfinity(a, lit, b) ==
    lex(a).tokens \o << Number(Infinity(Head(lit) = "-")) >> \o lex(b).tokens

\* C15: lex never fails on a grammatically valid numeric literal because of
\* its magnitude: a literal beyond the f64 range yields a Number token of
\* +infinity, or -infinity when the literal begins with `-`, and the rest of
\* the input is tokenized as it is without the literal.
C15_HugeLiteralIsInfinity ==
    (input \in HugeInputs /\ pc \in {"validate", "done"})
        => \E a \in HugePrefixes, lit \in HugeLiterals, b \in HugeSuffixes :
              /\ input = a \o lit \o b
              /\ tokens = TokensAroundInfinity(a, lit, b)

\* the repository's test input `[1,-2.6e1111]` has been tokenized
C15_Witness ==
    /\ pc = "validate"
    /\ input = << "[", "1", ",", "-", "2", ".", "6", "e", "1", "1", "1", "1", "]" >>
    /\ Len(tokens) = 5
    /\ tokens[4] = Number(Infinity(TRUE))
    /\ tokens[5].kind = "ClosedBracket"

\* C16: validation calls share no state: check_valid calls on independent
\* streams, interleaved in any way, each return what the call returns when run
\* alone, a step of one call changes nothing of another, and two calls on the
\* same input return the same result.
C16_CallsIndependent ==
    /\ [](\A k \in DOMAIN calls :
            calls[k].pc = "done" => calls[k].result = check_valid(calls[k].input))
    /\ [](\A j, k \in DOMAIN calls :
            (calls[j].pc = "done" /\ calls[k].pc = "done" /\ calls[j].input = calls[k].input)
                => calls[j].result = calls[k].result)
    /\ [][\A j, k \in DOMAIN calls :
            (j # k /\ calls'[k] # calls[k]) => calls'[j] = calls[j]]_vars

\* one call has tokenized `{` and is waiting for its next chunk while the
\* other has already returned the diagnostic of its `a`
C16_Witness ==
    /\ pc = "calls"
    /\ calls[1].input = << "{", "}" >>
    /\ calls[1].pc = "chars"
    /\ calls[1].si = 1
    /\ calls[2].input = << "}", "a" >>
    /\ calls[2].pc = "done"
    /\ calls[2].result = JSONError("Unexpected 'a'", 1)

Openers == {"OpenBrace", "OpenBracket"}

Closers == {"ClosedBrace", "ClosedBracket"}

\* the last token parse consumed was accepted and closed a container nested in
\* another; `open` is what the tokens leave open
ClosedNested(open) ==
    /\ result.status # "Err"
    /\ tokens # << >>
    /\ tokens[Len(tokens)].kind \in Closers
    /\ open # << >>

\* C17: in parse, after a nested container is closed the state is the
\* after-value position of the container that is now innermost: AfterObjVal
\* when that is an object, ArrVal when it is an array.
C17_StateAfterNestedClose ==
    ClosedNested(OpenContainers(tokens, << >>))
        => pstate.state_kind =
              (IF OpenContainers(tokens, << >>)[Len(OpenContainers(tokens, << >>))] = "o"
               THEN "AfterObjVal" ELSE "ArrVal")

\* C18: parse accepts a nested container as an array element in every element
\* position: from OpenArr and from ArrValAfterComma both `{` and `[` are
\* accepted (and push a nested marker), never answered with an Err.
C18_NestedContainerAsElement ==
    (pc = "done" /\ tokens # << >> /\ tokens[Len(tokens)].kind \in Openers
        /\ pstate.state_kind \in {"OpenArr", "ArrValAfterComma"})
        => result.status # "Err"

CountOf(toks, kinds) == Cardinality({ i \in 1..Len(toks) : toks[i].kind \in kinds })

\* C19: after every token parse processes without error, the length of the
\* container stack is the number of `{`/`[` consumed minus the number of
\* `}`/`]` consumed, a root marker occurs at the bottom of the stack and
\* nowhere else, and the state is End only when the stack is empty after at
\* least one container was opened and closed.
C19_StackIsNesting ==
    result.status # "Err"
        => /\ Len(pstate.obj_arr_stack) = CountOf(tokens, Openers) - CountOf(tokens, Closers)
           /\ \A i \in 1..Len(pstate.obj_arr_stack) :
                 (pstate.obj_arr_stack[i] \in {"RootObj", "RootArr"}) <=> (i = 1)
           /\ pstate.state_kind = "End"
                 => /\ pstate.obj_arr_stack = << >>
                    /\ CountOf(tokens, Openers) >= 1
                    /\ CountOf(tokens, Closers) >= 1

\* an array nested in an array nested in the root object is open
C19_Witness ==
    /\ pc = "parse"
    /\ pstate.obj_arr_stack = << "RootObj", "Array", "Array" >>
    /\ CountOf(tokens, Closers) >= 1

\* the last token is a closer of this kind and the innermost container the
\* tokens before it leave open is of this kind
CloserInside(closer, container) ==
    /\ tokens # << >>
    /\ tokens[Len(tokens)].kind = closer
    /\ LET open == OpenContainers(SubSeq(tokens, 1, Len(tokens) - 1), << >>)
       IN  open # << >> /\ open[Len(open)] = container

\* every closer of the token sequence is of the kind of the most recent opener
\* not yet closed
RECURSIVE ClosersMatch(_, _)
ClosersMatch(toks, open) ==
    IF toks = << >> THEN TRUE
    ELSE CASE Head(toks).kind = "OpenBrace" -> ClosersMatch(Tail(toks), Append(open, "o"))
           [] Head(toks).kind = "OpenBracket" -> ClosersMatch(Tail(toks), Append(open, "a"))
           [] Head(toks).kind = "ClosedBrace" ->
                 open # << >> /\ open[Len(open)] = "o"
                 /\ ClosersMatch(Tail(toks), SubSeq(open, 1, Len(open) - 1))
           [] Head(toks).kind = "ClosedBracket" ->
                 open # << >> /\ open[Len(open)] = "a"
                 /\ ClosersMatch(Tail(toks), SubSeq(open, 1, Len(open) - 1))
           [] OTHER -> ClosersMatch(Tail(toks), open)

\* C20: parse never closes a container with the wrong closer: a `}` arriving
\* when the innermost open container is an array returns
\* Err("Unexpected '}'"), a `]` arriving when it is an object returns
\* Err("Unexpected ']'"), in every state; so in every token sequence that
\* parse has consumed without error each closer matches its opener.
C20_CloserMatchesOpener ==
    /\ CloserInside("ClosedBrace", "a") => result = JSONError("Unexpected '}'", 1)
    /\ CloserInside("ClosedBracket", "o") => result = JSONError("Unexpected ']'", 1)
    /\ result.status # "Err" => ClosersMatch(tokens, << >>)

\* a `]` arrives in state ArrVal while the innermost open container is the
\* root object, and close_arr has returned the error
C20_Witness ==
    /\ pc = "done"
    /\ CloserInside("ClosedBracket", "o")
    /\ pstate.state_kind = "ArrVal"
    /\ pstate.obj_arr_stack = << "RootObj" >>
    /\ result = JSONError("Unexpected ']'", 1)

\* how a token is named in a diagnostic
Renderings ==
    [OpenBrace |-> "'{'", ClosedBrace |-> "'}'", OpenBracket |-> "'['",
     ClosedBracket |-> "']'", NewLine |-> "'\n'", DoubleQuotes |-> "'\"'", Column |-> "':'",
     Comma |-> "','", StringLiteral |-> "'<string literal>'", Number |-> "'<number>'",
     BoolTrue |-> "'<boolean>'", BoolFalse |-> "'<boolean>'", Null |-> "'<null>'"]

\* the index of the first token that is no line break (0 if there is none)
FirstSignificant(toks) ==
    IF \E i \in 1..Len(toks) : toks[i].kind # "NewLine"
    THEN CHOOSE i \in 1..Len(toks) :
            toks[i].kind # "NewLine" /\ \A j \in 1..(i - 1) : toks[j].kind = "NewLine"
    ELSE 0

\* C21: parse rejects every token sequence whose first token that is no line
\* break is not `{` or `[`: a scalar, `:`, `,`, `}` or `]` arriving in Initial
\* returns Err("Unexpected <rendering>"), so a bare scalar is never accepted.
C21_RootMustBeContainer ==
    (FirstSignificant(tokens) > 0 /\ tokens[FirstSignificant(tokens)].kind \notin Openers)
        => /\ pc = "done"
           /\ FirstSignificant(tokens) = Len(tokens)
           /\ pstate.state_kind = "Initial"
           /\ result = JSONError("Unexpected "
                                  \o Renderings[tokens[FirstSignificant(tokens)].kind], 1)

\* a number arrives after a line break as the first token and is rejected
C21_Witness ==
    /\ pc = "done"
    /\ Len(tokens) = 2
    /\ tokens[1].kind = "NewLine"
    /\ tokens[2].kind = "Number"
    /\ result = JSONError("Unexpected '<number>'", 1)

IsNoNewLine(token) == token.kind # "NewLine"

StripNewLines(toks) == SelectSeq(toks, IsNoNewLine)

\* C22: line-break tokens never influence parse: the result for a token
\* sequence is the result for the sequence without its NewLine tokens,
\* wherever they stand, and a NewLine token changes neither the state kind nor
\* the container stack.
C22_NewLineIgnored ==
    /\ [](pc = "done" => result = parse(StripNewLines(tokens)))
    /\ [][(pc = "parse" /\ tokens' # tokens /\ tokens'[Len(tokens')].kind = "NewLine")
              => (pstate' = pstate /\ result' = NoResult /\ pc' = "parse")]_vars

\* an object is accepted with a line break before it, inside it and after it
C22_Witness ==
    /\ pc = "done"
    /\ result = OkResult
    /\ Len(tokens) = 5
    /\ tokens[1].kind = "NewLine"
    /\ tokens[3].kind = "NewLine"
    /\ tokens[5].kind = "NewLine"

\* C23: every structural error of parse is raised at the first token that has
\* no transition from the current state, with the message "Unexpected "
\* followed by that token's rendering (the punctuation in single quotes, or
\* '<string literal>', '<number>', '<boolean>', '<null>'); the end of the
\* tokens in a state other than End gives "Unexpected EOF".
C23_ErrorNamesFirstBadToken ==
    (pc = "done" /\ result.status = "Err")
        => /\ result.line = 1
           /\ \/ /\ result.message = "Unexpected EOF"
                 /\ pstate.state_kind # "End"
                 /\ ParseConsumes(tokens)
              \/ /\ tokens # << >>
                 /\ result.message = "Unexpected " \o Renderings[tokens[Len(tokens)].kind]
                 /\ ParseConsumes(SubSeq(tokens, 1, Len(tokens) - 1))
                 /\ ParseStep(pstate, tokens[Len(tokens)]).err.status = "Err"

\* a boolean arrives where the first key of an object is expected
C23_Witness ==
    /\ pc = "done"
    /\ Len(tokens) = 2
    /\ tokens[1].kind = "OpenBrace"
    /\ tokens[2].kind = "BoolTrue"
    /\ result = JSONError("Unexpected '<boolean>'", 1)

\* some token from index n + 1 on is no line break
DropsSignificant(toks, n) == \E i \in (n + 1)..Len(toks) : toks[i].kind # "NewLine"

\* C24: for every token sequence parse accepts, every proper prefix that drops
\* at least one token that is no line break (the empty sequence included)
\* makes parse return Err("Unexpected EOF"); parse returns Ok(()) only when
\* every token was consumed without an error and the final state is End.
C24_PrefixIsUnexpectedEof ==
    /\ result.status = "Ok"
          => /\ pstate.state_kind = "End"
             /\ ParseConsumes(tokens)
             /\ \A n \in 0..(Len(tokens) - 1) :
                   DropsSignificant(tokens, n)
                       => parse(SubSeq(tokens, 1, n)) = JSONError("Unexpected EOF", 1)
    /\ (pc = "done" /\ pstate.state_kind # "End") => result.status = "Err"

\* an object holding an array of one element has been accepted
C24_Witness ==
    /\ pc = "done"
    /\ result = OkResult
    /\ Len(tokens) = 7
    /\ tokens[4].kind = "OpenBracket"
    /\ tokens[5].kind = "Number"

\* the index in the input of the character lex's loop is at
CharIndex == pos - Len(s) + si + 1

\* C25: lex fails at the first character, in document order, that has no
\* transition from the current tokenizer state, with the message
\* "Unexpected '<that character>'" ("Unexpected <tab>" for a raw tab inside a
\* string); no token sequence is returned and the characters after the
\* offending one have no effect on the result.
C25_LexFailsAtFirstBadChar ==
    (pc = "done" /\ lex(input).err.status = "Err")
        => /\ result = JSONError(IF input[CharIndex] = "\t" /\ state.kind = "ValueStringLiteral"
                                 THEN "Unexpected <tab>"
                                 ELSE "Unexpected '" \o input[CharIndex] \o "'", 1)
           /\ tokens = << >>
           /\ lex(SubSeq(input, 1, CharIndex - 1)).err.status # "Err"
           /\ lex(SubSeq(input, 1, CharIndex)).err = result

\* a raw tab inside the string of an object member has stopped lex
C25_Witness ==
    /\ pc = "done"
    /\ input = << "{", "\"", "k", "\"", ":", "\"", "a", "\t", "b", "\"", "}" >>
    /\ CharIndex = 8
    /\ result = JSONError("Unexpected <tab>", 1)

LexTerminators == {"}", "]", ",", "\n", " "}

\* what may follow a `0` that starts the integer part / the exponent digits
AfterLeadingZero(n) ==
    IF n = "LeadingZero" THEN {".", "e", "E"} \cup LexTerminators ELSE LexTerminators

\* the step of lex's loop returns the Err for the character it is at
FailsOnChar ==
    /\ pc' = "done"
    /\ result' = JSONError("Unexpected '" \o s[si + 1] \o "'", 1)
    /\ lex_tokens' = lex_tokens

\* the step of lex's loop consumes the character it is at
ConsumesChar == result' = NoResult /\ pc' # "done" /\ si' = si + 1

\* C26: the leading-zero rule of lex: after a `0` that starts the integer part
\* (LeadingZero) only `.`, `e`/`E` or a terminator is accepted, after a `0`
\* that starts the exponent digits (ExpLeadingZero) only a terminator; every
\* other character, a digit included, fails with "Unexpected '<character>'".
C26_LeadingZeroRule ==
    [][(pc = "chars" /\ state.kind = "ValueNumber"
            /\ state.n \in {"LeadingZero", "ExpLeadingZero"})
          => IF s[si + 1] \in AfterLeadingZero(state.n) THEN ConsumesChar ELSE FailsOnChar]_vars

\* `011` has failed at the digit after the leading zero
C26_Witness ==
    /\ pc = "done"
    /\ input = << "0", "1", "1" >>
    /\ si = 1
    /\ state = ValueNumber("LeadingZero")
    /\ result = JSONError("Unexpected '1'", 1)

\* where a point, an exponent marker and a sign are legal inside a number
MarkAccepted(c, n) ==
    \/ c = "." /\ n \in {"Integer", "LeadingZero"}
    \/ c \in {"e", "E"} /\ n \in {"LeadingZero", "Integer", "Decimal"}
    \/ c \in {"+", "-"} /\ n = "Exp"

CountChar(str, c) == Cardinality({ i \in 1..Len(str) : str[i] = c })

\* C27: inside a number, lex accepts a decimal point only directly after the
\* integer part and at most once, an exponent marker at most once and only
\* from LeadingZero, Integer or Decimal, and a sign only directly after the
\* exponent marker; every other `.`, `e`, `E`, `+`, `-` inside a number fails
\* with "Unexpected '<character>'".
C27_PointExpSignPlacement ==
    /\ [][(pc = "chars" /\ state.kind = "ValueNumber"
              /\ s[si + 1] \in {".", "e", "E", "+", "-"})
            => IF MarkAccepted(s[si + 1], state.n) THEN ConsumesChar ELSE FailsOnChar]_vars
    /\ [](/\ CountChar(curr_number_string, ".") <= 1
          /\ CountChar(curr_number_string, "e") <= 1
          /\ CountChar(curr_number_string, "E") = 0)

\* `1e1e` has failed at the second exponent marker
C27_Witness ==
    /\ pc = "done"
    /\ input = << "1", "e", "1", "e" >>
    /\ si = 3
    /\ state = ValueNumber("ExpInteger")
    /\ result = JSONError("Unexpected 'e'", 1)

\* C28: a number may end only in a final sub-state: a terminator (`}`, `]`,
\* `,`, line break, space) arriving in Sign, Point, Exp or ExpSign makes lex
\* fail with "Unexpected '<terminator>'", and no Number token is pushed.
C28_TerminatorNeedsFinalState ==
    [][(pc = "chars" /\ state.kind = "ValueNumber"
            /\ state.n \in {"Sign", "Point", "Exp", "ExpSign"}
            /\ s[si + 1] \in LexTerminators)
          => FailsOnChar]_vars

\* `1.}` has failed at the brace after the point
C28_Witness ==
    /\ pc = "done"
    /\ input = << "1", ".", "}" >>
    /\ state = ValueNumber("Point")
    /\ lex_tokens = << >>
    /\ result = JSONError("Unexpected '}'", 1)

\* C29: every number literal that is in a final sub-state when a terminator
\* or the end of the input arrives yields one Number token: when lex has
\* returned with its last chunk ending inside such a literal, the last token
\* is that Number.
C29_NumberAtEndEmitted ==
    (pc = "validate" /\ state.kind = "ValueNumber" /\ is_final(state.n))
        => (tokens # << >> /\ tokens[Len(tokens)].kind = "Number")

RemoveAt(str, i) == SubSeq(str, 1, i - 1) \o SubSeq(str, i + 1, Len(str))

HasNoString(str) == \A i \in 1..Len(str) : str[i] # "\""

\* C30: lex accepts a `+` or a `-` in front of a number and after the exponent
\* marker: a `-` is kept in the text of the literal and a `+` is dropped from
\* it, so the tokens of an input are those of the input without the `+`; a
\* sign directly after a sign is rejected.
C30_SignHandling ==
    /\ [](CountChar(curr_number_string, "+") = 0)
    /\ [](pc = "validate" /\ HasNoString(input)
            => \A i \in 1..Len(input) :
                  input[i] = "+" => tokens = lex(RemoveAt(input, i)).tokens)
    /\ [][(pc = "chars" /\ s[si + 1] \in {"+", "-"}
              /\ (state.kind = "Normal" \/ state = ValueNumber("Exp")))
            => /\ ConsumesChar
               /\ curr_number_string' = IF s[si + 1] = "-"
                                         THEN Append(curr_number_string, "-")
                                         ELSE curr_number_string]_vars
    /\ [][(pc = "chars" /\ s[si + 1] \in {"+", "-"}
              /\ state.kind = "ValueNumber" /\ state.n \in {"Sign", "ExpSign"})
            => FailsOnChar]_vars

\* `1e+1 ` has been tokenized as the one Number that `1e1 ` gives
C30_Witness ==
    /\ pc = "validate"
    /\ input = << "1", "e", "+", "1", " " >>
    /\ Len(tokens) = 1
    /\ tokens = lex(<< "1", "e", "1", " " >>).tokens

\* the spelling of the literal each literal state belongs to, and its token
Spelling ==
    [ValueTrue |-> << "t", "r", "u", "e" >>, ValueFalse |-> << "f", "a", "l", "s", "e" >>,
     ValueNull |-> << "n", "u", "l", "l" >>]

LiteralToken == [ValueTrue |-> "BoolTrue", ValueFalse |-> "BoolFalse", ValueNull |-> "Null"]

LiteralStates == {"ValueTrue", "ValueFalse", "ValueNull"}

\* how many characters of its literal the state st has matched
Matched(st) ==
    CHOOSE i \in 1..Len(Spelling[st.kind]) :
        /\ Spelling[st.kind][i] = st.c
        /\ \A j \in 1..(i - 1) : Spelling[st.kind][j] # st.c

Occurrences(str, sub) ==
    Cardinality({ i \in 1..(Len(str) - Len(sub) + 1) : SubSeq(str, i, i + Len(sub) - 1) = sub })

\* the step of lex's loop matches the next character of the literal of kind k,
\* pushing the literal's token and returning to Normal at its last character
MatchesLiteral(k) ==
    /\ ConsumesChar
    /\ IF Matched(state) + 1 = Len(Spelling[k])
       THEN state' = Normal /\ lex_tokens' = Append(lex_tokens, Token(LiteralToken[k]))
       ELSE /\ state'.kind = k
            /\ Matched(state') = Matched(state) + 1
            /\ lex_tokens' = lex_tokens

\* C31: lex emits BoolTrue, BoolFalse or Null exactly when the characters
\* t-r-u-e, f-a-l-s-e or n-u-l-l occur consecutively starting in Normal, and
\* then returns to Normal; while a literal is partly matched, any character
\* other than the expected next one (a space or a line break included) fails
\* with "Unexpected '<that character>'" and no token is pushed for the partial
\* literal.
C31_LiteralsSpelledExactly ==
    /\ [][(pc = "chars" /\ state.kind = "Normal" /\ s[si + 1] \in {"t", "f", "n"})
            => /\ ConsumesChar
               /\ state'.kind \in LiteralStates
               /\ Spelling[state'.kind][1] = s[si + 1]
               /\ Matched(state') = 1
               /\ lex_tokens' = lex_tokens]_vars
    /\ [][(pc = "chars" /\ state.kind \in LiteralStates)
            => IF s[si + 1] = Spelling[state.kind][Matched(state) + 1]
               THEN MatchesLiteral(state.kind)
               ELSE FailsOnChar]_vars
    /\ [](pc = "chars" /\ state.kind \in LiteralStates
            => /\ si >= Matched(state)
               /\ SubSeq(s, si - Matched(state) + 1, si)
                     = SubSeq(Spelling[state.kind], 1, Matched(state)))
    /\ [](pc = "validate" /\ HasNoString(input)
            => \A k \in LiteralStates :
                  CountOf(tokens, {LiteralToken[k]}) = Occurrences(input, Spelling[k]))

\* `[tru ]` has failed at the space, with no token for the partial literal
C31_Witness ==
    /\ pc = "done"
    /\ input = << "[", "t", "r", "u", " ", "]" >>
    /\ state = ValueTrue("u")
    /\ lex_tokens = << Token("OpenBracket") >>
    /\ result = JSONError("Unexpected ' '", 1)

\* the characters JSON allows after a backslash, and the hexadecimal digits
EscapeLetters == {"\"", "\\", "b", "f", "n", "r", "t", "/", "u"}

HexDigits ==
    {"0", "1", "2", "3", "4", "5", "6", "7", "8", "9",
     "A", "B", "C", "D", "E", "F", "a", "b", "c", "d", "e", "f"}

\* C32: inside a string, after a backslash lex accepts only `"`, `\`, `b`,
\* `f`, `n`, `r`, `t`, `/` or `u`; `u` must be followed by exactly 4
\* hexadecimal digits, after which the state returns to the string; any other
\* character after the backslash, or a non-hex character (the closing quote
\* included) before 4 hex digits are read, fails with
\* "Unexpected '<that character>'".
C32_EscapeSequences ==
    /\ [][(pc = "chars" /\ state.kind = "Escaping")
            => IF s[si + 1] \in EscapeLetters
               THEN /\ ConsumesChar
                    /\ state' = IF s[si + 1] = "u" THEN Hex(0) ELSE ValueStringLiteral
               ELSE FailsOnChar]_vars
    /\ [][(pc = "chars" /\ state.kind = "Hex")
            => IF s[si + 1] \in HexDigits
               THEN /\ ConsumesChar
                    /\ state' = IF state.hex = 3 THEN ValueStringLiteral ELSE Hex(state.hex + 1)
               ELSE FailsOnChar]_vars
    /\ [](pc = "chars" /\ state.kind = "Hex"
            => /\ state.hex \in 0..3
               /\ si >= state.hex + 2
               /\ SubSeq(s, si - state.hex - 1, si - state.hex) = << "\\", "u" >>
               /\ \A i \in (si - state.hex + 1)..si : s[i] \in HexDigits)
    /\ [](pc = "chars" /\ state.kind = "Escaping" => si >= 1 /\ s[si] = "\\")

\* the closing quote has arrived after two of the four hex digits
C32_Witness ==
    /\ pc = "done"
    /\ input = << "\"", "\\", "u", "0", "9", "\"", "\"" >>
    /\ state = Hex(2)
    /\ result = JSONError("Unexpected '\"'", 1)

\* scanning str from its character i: the index of the quote that opens the
\* string str ends inside, 0 when it ends outside every string
RECURSIVE OpeningQuote(_, _, _, _)
OpeningQuote(str, i, open, escaped) ==
    IF i > Len(str) THEN open
    ELSE IF open = 0 THEN OpeningQuote(str, i + 1, IF str[i] = "\"" THEN i ELSE 0, FALSE)
    ELSE IF escaped THEN OpeningQuote(str, i + 1, open, FALSE)
    ELSE IF str[i] = "\\" THEN OpeningQuote(str, i + 1, open, TRUE)
    ELSE OpeningQuote(str, i + 1, IF str[i] = "\"" THEN 0 ELSE open, FALSE)

\* the characters of the chunk since the quote that opened the current string
RawLiteral == SubSeq(s, OpeningQuote(SubSeq(s, 1, si), 1, 0, FALSE) + 1, si)

\* the text the characters raw of a literal stand for: `\"` and `\\` give the
\* quote and the backslash, every other escape is kept as written
RECURSIVE LiteralText(_)
LiteralText(raw) ==
    IF raw = << >> THEN << >>
    ELSE IF Head(raw) = "\\" /\ Len(raw) >= 2
    THEN (IF raw[2] \in {"\"", "\\"} THEN << raw[2] >> ELSE << "\\", raw[2] >>)
            \o LiteralText(SubSeq(raw, 3, Len(raw)))
    ELSE << Head(raw) >> \o LiteralText(Tail(raw))

\* C33: the text of a StringLiteral token is the literal's characters in
\* order, where an escaped quote or escaped backslash contributes only the
\* quote or the backslash, and each of the escapes b, f, n, r, t, / and uXXXX
\* contributes the backslash followed by the escape characters (kept, not
\* decoded).
C33_StringLiteralText ==
    /\ [](pc = "chars" /\ state.kind \in {"ValueStringLiteral", "Hex"}
            => curr_string_literal = LiteralText(RawLiteral))
    /\ [][(pc = "chars" /\ state.kind = "ValueStringLiteral" /\ s[si + 1] = "\"")
            => /\ ConsumesChar
               /\ lex_tokens' = Append(lex_tokens, StringLiteral(LiteralText(RawLiteral)))]_vars

\* a string of an escaped quote, `\n` and `\u00e9` has become one token
C33_Witness ==
    /\ pc = "validate"
    /\ input = << "\"", "\\", "\"", "\\", "n", "\\", "u", "0", "0", "e", "9", "\"" >>
    /\ tokens = << StringLiteral(<< "\"", "\\", "n", "\\", "u", "0", "0", "e", "9" >>) >>

\* the step of lex's loop returns the Err of a raw tab
FailsOnTab ==
    /\ pc' = "done"
    /\ result' = JSONError("Unexpected <tab>", 1)
    /\ lex_tokens' = lex_tokens

\* the chunk has an open string at the character lex's loop is at, with no
\* escape in it so far
InPlainString ==
    /\ OpeningQuote(SubSeq(s, 1, si), 1, 0, FALSE) # 0
    /\ \A i \in 1..Len(RawLiteral) : RawLiteral[i] # "\\"

PlainChars ==
    {"{", "}", "[", "]", ":", ",", " "} \cup HexDigits
        \cup {"g", "k", "l", "n", "r", "s", "t", "u", "v", "x", "G", "U"}

FinalNumberStates == {"LeadingZero", "Integer", "Decimal", "ExpLeadingZero", "ExpInteger"}

\* C35: while lex is inside a string literal, structural characters, spaces,
\* digits and letters push no token and are appended to the literal's text;
\* each closing quote pushes exactly one StringLiteral token and resets the
\* accumulated text, so a token's text never contains characters of an
\* earlier literal. Outside strings a space pushes no token of its own:
\* nothing in Normal, and after a number only the Number it ends.
C35_StringAccumulation ==
    /\ [][(pc = "chars" /\ state.kind = "ValueStringLiteral" /\ s[si + 1] \in PlainChars)
            => /\ ConsumesChar
               /\ state' = state
               /\ lex_tokens' = lex_tokens
               /\ curr_string_literal' = Append(curr_string_literal, s[si + 1])]_vars
    /\ [][(pc = "chars" /\ state.kind = "ValueStringLiteral" /\ s[si + 1] = "\"")
            => /\ ConsumesChar
               /\ state' = Normal
               /\ lex_tokens' = Append(lex_tokens, StringLiteral(curr_string_literal))
               /\ curr_string_literal' = << >>]_vars
    /\ [][(pc = "chars" /\ state.kind = "Normal" /\ s[si + 1] = "\"")
            => /\ ConsumesChar
               /\ state' = ValueStringLiteral
               /\ lex_tokens' = lex_tokens
               /\ curr_string_literal' = << >>]_vars
    /\ [](state.kind \notin {"ValueStringLiteral", "Escaping", "Hex"}
            => curr_string_literal = << >>)
    /\ [][(pc = "chars" /\ state.kind = "Normal" /\ s[si + 1] = " ")
            => ConsumesChar /\ state' = Normal /\ lex_tokens' = lex_tokens]_vars
    /\ [][(pc = "chars" /\ state.kind = "ValueNumber" /\ state.n \in FinalNumberStates
              /\ s[si + 1] = " ")
            => /\ ConsumesChar
               /\ state' = Normal
               /\ Len(lex_tokens') = Len(lex_tokens) + 1
               /\ SubSeq(lex_tokens', 1, Len(lex_tokens)) = lex_tokens
               /\ lex_tokens'[Len(lex_tokens')].kind = "Number"]_vars

\* `"{}""a"` has been tokenized as two literals, `{}` and `a`
C35_Witness ==
    /\ pc = "validate"
    /\ input = << "\"", "{", "}", "\"", "\"", "a", "\"" >>
    /\ tokens = << StringLiteral(<< "{", "}" >>), StringLiteral(<< "a" >>) >>

\* the tokenizer's transitions applied to str from one end to the other, the
\* state and the two buffers carried over every character
RECURSIVE LexCarryingState(_, _, _, _, _)
LexCarryingState(str, st, lit, num, toks) ==
    IF str = << >> THEN [err |-> NoResult, tokens |-> toks]
    ELSE LET out == LexStep(Head(str), st, lit, num)
         IN  IF out.err.status = "Err" THEN [err |-> out.err, tokens |-> << >>]
             ELSE LexCarryingState(Tail(str), out.state, out.lit, out.num, toks \o out.pushed)

\* C36: lex's result does not depend on where chunk (line) boundaries fall:
\* the tokenizer's state and the accumulated literal text carry over from one
\* chunk to the next, so a string literal that contains a raw newline is
\* emitted as one StringLiteral token whose text contains the newline, and
\* the characters after the newline are still treated as inside the string.
C36_StateCarriedAcrossChunks ==
    /\ pc = "validate"
          => /\ LexCarryingState(input, Normal, << >>, << >>, << >>).err = NoResult
             /\ tokens = LexCarryingState(input, Normal, << >>, << >>, << >>).tokens
    /\ (pc = "done" /\ lex(input).err.status = "Err")
          => result = LexCarryingState(input, Normal, << >>, << >>, << >>).err

\* C37: a multi-byte (non-ASCII) character is accepted by lex only inside a
\* string literal, where it is appended unchanged to the literal's text; in
\* every other tokenizer state (Normal, inside a number, inside
\* true/false/null, after a backslash, inside a unicode escape) it fails with
\* "Unexpected '<that character>'".
C37_MultiByteOnlyInStrings ==
    [][(pc = "chars" /\ s[si + 1] = MultiByteChar)
          => IF state.kind = "ValueStringLiteral"
             THEN /\ ConsumesChar
                  /\ state' = state
                  /\ lex_tokens' = lex_tokens
                  /\ curr_string_literal' = Append(curr_string_literal, MultiByteChar)
             ELSE FailsOnChar]_vars

\* the key of `{"é":""}` has become the StringLiteral `é`
C37_Witness ==
    /\ pc = "validate"
    /\ input = << "{", "\"", MultiByteChar, "\"", ":", "\"", "\"", "}" >>
    /\ tokens = << Token("OpenBrace"), StringLiteral(<< MultiByteChar >>), Token("Column"),
                   StringLiteral(<< >>), Token("ClosedBrace") >>

\* C38: for every input byte stream, one that is not valid UTF-8 included,
\* lex and check_valid finish by returning Ok or a diagnostic value; no input
\* makes the call abort (panic) instead of returning a Result.
C38_NeverPanics == pc # "panicked"

DecimalDigits == {"0", "1", "2", "3", "4", "5", "6", "7", "8", "9"}

OnlyDigits(str) == \A i \in 1..Len(str) : str[i] \in DecimalDigits

\* `0`, or a non-zero digit followed by digits
IntegerShape(str) == str # << >> /\ OnlyDigits(str) /\ (str[1] = "0" => Len(str) = 1)

\* nothing, or a dot and one or more digits
FractionShape(str) ==
    str = << >> \/ (str[1] = "." /\ Len(str) >= 2 /\ OnlyDigits(Tail(str)))

\* nothing, or `e`, an optional `-`, and an integer
ExponentShape(str) ==
    \/ str = << >>
    \/ /\ str[1] = "e"
       /\ \/ IntegerShape(Tail(str))
          \/ Len(str) >= 2 /\ str[2] = "-" /\ IntegerShape(Tail(Tail(str)))

UnsignedShape(str) ==
    \E i \in 1..Len(str) : \E j \in i..Len(str) :
        /\ IntegerShape(SubSeq(str, 1, i))
        /\ FractionShape(SubSeq(str, i + 1, j))
        /\ ExponentShape(SubSeq(str, j + 1, Len(str)))

\* optional `-`, integer part, optional fraction, optional exponent
NumberShape(str) ==
    str # << >> /\ UnsignedShape(IF str[1] = "-" THEN Tail(str) ELSE str)

ConversionErrors ==
    {"Unexpected error: cannot parse float from empty string",
     "Unexpected error: invalid float literal"}

\* C39: whenever lex converts an accumulated number text to a float, the text
\* consists only of characters of the current literal (the number buffer is
\* empty whenever the tokenizer is in Normal) and has the shape: optional `-`,
\* then `0` or a non-zero digit followed by digits, then optionally a dot and
\* one or more digits, then optionally `e`, an optional `-`, and `0` or a
\* non-zero digit followed by digits; hence the conversion never fails and the
\* "Unexpected error: ..." diagnostic of parse_string_number_to_float is never
\* returned.
C39_ConvertedTextIsNumber ==
    /\ [](state.kind # "ValueNumber" => curr_number_string = << >>)
    /\ [][(pc = "chars" /\ state'.kind = "ValueNumber" /\ si' = si + 1)
            => curr_number_string' \in
                  { curr_number_string, Append(curr_number_string, s[si + 1]),
                    Append(curr_number_string, "e") }]_vars
    /\ [][(pc = "chars" /\ state.kind = "ValueNumber" /\ state.n \in FinalNumberStates
              /\ s[si + 1] \in LexTerminators)
            => /\ NumberShape(curr_number_string)
               /\ ConsumesChar
               /\ Len(lex_tokens') > Len(lex_tokens)
               /\ lex_tokens'[Len(lex_tokens) + 1] = Number(FloatValue(curr_number_string))
               /\ curr_number_string' = << >>]_vars
    /\ [](result.message \notin ConversionErrors)

\* `1e-1 ` has been converted, the sign of the exponent kept in the text
C39_Witness ==
    /\ pc = "validate"
    /\ input = << "1", "e", "-", "1", " " >>
    /\ tokens = << Number(FloatValue(<< "1", "e", "-", "1" >>)) >>

====
